---- MODULE Spec2Model ----
(***************************************************************************)
(* A model of the Matrix/Flowise bridge bot of src/matrix-bot.py: the      *)
(* class FlowiseBot with its two caches (session_cache, file_cache), its   *)
(* event callbacks (on_invite, on_message, on_file, on_encrypted_event),   *)
(* its command processor (handle_command) and its sender (safe_room_send   *)
(* with the direct-HTTP fallback send_unencrypted_message).                *)
(*                                                                         *)
(* One action models one whole callback.  What the environment does in a   *)
(* callback (the result of a join, a download, a decryption, the Flowise    *)
(* request, the send attempts) is an input of the action.  The variables   *)
(* ev, replies, requests, joins, downloads, decrypts, response, file_info, *)
(* old_session, prior and raised record what the last callback received    *)
(* and did; session_cache and file_cache are the bot's own fields; run is  *)
(* the position and the history of the coroutine run().                    *)
(***************************************************************************)
EXTENDS Integers, Sequences, FiniteSets, TLC

VARIABLES
    session_cache,  \* self.session_cache: room id -> session id
    file_cache,     \* self.file_cache: <<room id, sender>> -> attachment
    ev,             \* the event the last callback was called with
    replies,        \* the sends the last callback made, in order
    requests,       \* the Flowise requests the last callback made
    response,       \* what Flowise answered to the last callback's request
    joins,          \* the join requests the last callback made
    downloads,      \* the downloads the last callback made
    file_info,      \* the file name, MIME type and size on_file resolved
    old_session,    \* the session id !reset removed
    prior,          \* the cache entry the last upload replaced
    decrypts,       \* the decryption attempts the last callback made
    raised,         \* whether an exception left the last callback
    run,            \* run(): where it is and what it has done
    in_flight       \* the callbacks that were called and have not returned

vars == <<session_cache, file_cache, ev, replies, requests, response, joins,
          downloads, file_info, old_session, prior, decrypts, raised, run,
          in_flight>>

(***************************************************************************)
(* Text.  A Python str that the code slices, strips or searches is a       *)
(* sequence of one-character strings; identifiers that the code only       *)
(* passes around (room ids, user ids, MIME types) are TLA+ strings.        *)
(***************************************************************************)
Whitespace == {" ", "\t", "\n"}

RECURSIVE LStrip(_)
LStrip(s) == IF s # <<>> /\ Head(s) \in Whitespace THEN LStrip(Tail(s)) ELSE s

RECURSIVE RStrip(_)
RStrip(s) ==
    IF s # <<>> /\ s[Len(s)] \in Whitespace
    THEN RStrip(SubSeq(s, 1, Len(s) - 1))
    ELSE s

\* str.strip()
Strip(s) == RStrip(LStrip(s))

\* a test of the prefix that no text passes
StartsWithNothing(s, c) == FALSE

\* str.startswith(c) for a one-character c
StartsWith(s, c) == s # <<>> /\ s[1] = c

\* c in s
Contains(s, c) == \E i \in 1..Len(s) : s[i] = c

\* s[-n:] in the place of s[:n]
PrefixFromEnd(s, n) == SubSeq(s, IF Len(s) < n THEN 1 ELSE Len(s) - n + 1, Len(s))

\* s[:n]
Prefix(s, n) == SubSeq(s, 1, IF Len(s) < n THEN Len(s) ELSE n)

\* dict.setdefault in the place of an assignment: an entry that is there stays
DictSetDefault(d, k, v) ==
    [x \in DOMAIN d \cup {k} |-> IF x \in DOMAIN d THEN d[x] ELSE v]

\* Python dict operations on a TLA+ function
DictSet(d, k, v) == [x \in DOMAIN d \cup {k} |-> IF x = k THEN v ELSE d[x]]

\* dict.clear() in the place of dict.pop(k)
DictPopAll(d, k) == [x \in {} |-> 0]

DictPop(d, k) == [x \in DOMAIN d \ {k} |-> d[x]]
EmptyDict == [x \in {} |-> 0]

(***************************************************************************)
(* The bot's identity and the clock value taken at construction.           *)
(***************************************************************************)
user_id == "@bot:hs"
Alice == "@alice:hs"
Bob == "@bob:hs"
Room1 == "!r1:hs"
Room2 == "!r2:hs"

\* self.start_time: the model's clock reads 2 when the bot is constructed
start_time == 2

\* Origin timestamps range over 0..MaxTs: 0 is "no timestamp", 1 is before
\* the start, 2 is the start time itself, 3 is after it.
MaxTs == 3

(***************************************************************************)
(* Session store (generate_session_id, get_or_create_session).             *)
(***************************************************************************)
\* hashlib.sha256(s.encode()).hexdigest()[:16], tabulated on the identifiers
\* of the model
Sha256Hex16(s) ==
    CASE s = "!r1:hs"    -> "f2fa09e5cd1fff22"
      [] s = "!r2:hs"    -> "b6151ecfcc5acefa"
      [] s = "@alice:hs" -> "51aee0f096775f77"
      [] s = "@bob:hs"   -> "9c87203d029b2853"
      [] s = "@bot:hs"   -> "54205b370fc05506"

\* an id that differs from the one !reset has just removed for the room
generate_session_id_fresh(room_id) ==
    [prefix |-> "matrix_",
     hash |-> IF old_session.hash = Sha256Hex16(room_id)
              THEN "0000000000000000" ELSE Sha256Hex16(room_id)]

\* the hash of the bot's own id in the place of the room's
generate_session_id_of_bot(room_id) ==
    [prefix |-> "matrix_", hash |-> Sha256Hex16(user_id)]

\* f"matrix_{session_hash}"
generate_session_id(room_id) ==
    [prefix |-> "matrix_", hash |-> Sha256Hex16(room_id)]

\* the cache after the call, and the id the call returns
get_or_create_session(cache, room_id) ==
    LET after == IF room_id \notin DOMAIN cache
                 THEN DictSet(cache, room_id, generate_session_id(room_id))
                 ELSE cache
    IN  [cache |-> after, id |-> after[room_id]]

NoSession == [prefix |-> "", hash |-> ""]

(***************************************************************************)
(* Resilient sender (safe_room_send, send_unencrypted_message,             *)
(* verify_all_devices).  A send plan says what each primary attempt and    *)
(* the fallback HTTP request would meet if it were made.                   *)
(***************************************************************************)
\* the default of safe_room_send's max_retries
max_retries == 3

\* client.room_send: returns, or raises OlmUnverifiedDeviceError, KeyError
\* or another exception
PrimaryOutcomes == {"ok", "unverified", "keyerror", "error"}

\* the direct HTTP request: a status code, or an exception (status 0)
FallbackOutcomes == {200, 403, 500, 0}

SendPlans == [primary : [1..max_retries -> PrimaryOutcomes],
              fallback : FallbackOutcomes]

\* every exception inside verify_all_devices is caught inside it: the call
\* returns normally and is counted
verify_all_devices(n) == n + 1

\* send_unencrypted_message: the POST is made; a 200 is logged as sent, any
\* other status and any exception is logged; nothing is returned or raised
send_unencrypted_message(outcome) ==
    [requested |-> TRUE, delivered |-> outcome = 200, raised |-> FALSE]

\* the for loop without `return True`: an attempt that succeeds is followed
\* by the next one
RECURSIVE PrimaryLoopNoReturn(_, _, _, _)
PrimaryLoopNoReturn(plan, attempt, log, verified) ==
    IF attempt >= max_retries
    THEN [sent |-> FALSE, log |-> log, verified |-> verified]
    ELSE LET o == plan.primary[attempt + 1] IN
         CASE o = "unverified" ->
                PrimaryLoopNoReturn(plan, attempt + 1, Append(log, o),
                                    verify_all_devices(verified))
           [] o \in {"ok", "keyerror"} ->
                PrimaryLoopNoReturn(plan, attempt + 1, Append(log, o), verified)
           [] OTHER ->
                [sent |-> FALSE, log |-> Append(log, o), verified |-> verified]

\* the for loop with the key error handled like an unexpected error: break
RECURSIVE PrimaryLoopKeyErrorBreaks(_, _, _, _)
PrimaryLoopKeyErrorBreaks(plan, attempt, log, verified) ==
    IF attempt >= max_retries
    THEN [sent |-> FALSE, log |-> log, verified |-> verified]
    ELSE LET o == plan.primary[attempt + 1] IN
         CASE o = "ok" ->
                [sent |-> TRUE, log |-> Append(log, o), verified |-> verified]
           [] o = "unverified" ->
                PrimaryLoopKeyErrorBreaks(plan, attempt + 1, Append(log, o),
                                          verify_all_devices(verified))
           [] OTHER ->
                [sent |-> FALSE, log |-> Append(log, o), verified |-> verified]

\* the for loop of safe_room_send from attempt number `attempt` (0-based) on:
\* log is the outcomes met so far, verified the verify_all_devices calls
RECURSIVE PrimaryLoop(_, _, _, _)
PrimaryLoop(plan, attempt, log, verified) ==
    IF attempt >= max_retries
    THEN [sent |-> FALSE, log |-> log, verified |-> verified]
    ELSE LET o == plan.primary[attempt + 1] IN
         CASE o = "ok" ->
                [sent |-> TRUE, log |-> Append(log, o), verified |-> verified]
           [] o = "unverified" ->
                PrimaryLoop(plan, attempt + 1, Append(log, o),
                            verify_all_devices(verified))
           [] o = "keyerror" ->
                PrimaryLoop(plan, attempt + 1, Append(log, o), verified)
           [] OTHER ->  \* break
                [sent |-> FALSE, log |-> Append(log, o), verified |-> verified]

\* safe_room_send without `except Exception`: an unexpected error of a
\* primary attempt leaves it
safe_room_send_uncaught(plan) ==
    LET loop == PrimaryLoop(plan, 0, <<>>, 0) IN
    IF loop.sent
    THEN [result |-> "True", raised |-> FALSE, delivered |-> TRUE,
          primary |-> loop.log, fallback |-> <<>>, verified |-> loop.verified]
    ELSE IF loop.log[Len(loop.log)] = "error"
    THEN [result |-> "None", raised |-> TRUE, delivered |-> FALSE,
          primary |-> loop.log, fallback |-> <<>>, verified |-> loop.verified]
    ELSE [result |-> "True", raised |-> FALSE,
          delivered |-> plan.fallback = 200, primary |-> loop.log,
          fallback |-> <<plan.fallback>>, verified |-> loop.verified]

\* safe_room_send with the fallback left out: when no primary attempt
\* succeeded it reports failure
safe_room_send_without_fallback(plan) ==
    LET loop == PrimaryLoop(plan, 0, <<>>, 0) IN
    [result |-> IF loop.sent THEN "True" ELSE "False", raised |-> FALSE,
     delivered |-> loop.sent, primary |-> loop.log, fallback |-> <<>>,
     verified |-> loop.verified]

\* safe_room_send with the fallback kept for the case that all the primary
\* attempts were used: a break of the loop reports failure at once
safe_room_send_fallback_when_exhausted(plan) ==
    LET loop == PrimaryLoop(plan, 0, <<>>, 0) IN
    IF loop.sent
    THEN [result |-> "True", raised |-> FALSE, delivered |-> TRUE,
          primary |-> loop.log, fallback |-> <<>>, verified |-> loop.verified]
    ELSE IF Len(loop.log) < max_retries
    THEN [result |-> "False", raised |-> FALSE, delivered |-> FALSE,
          primary |-> loop.log, fallback |-> <<>>, verified |-> loop.verified]
    ELSE [result |-> "True", raised |-> FALSE,
          delivered |-> plan.fallback = 200, primary |-> loop.log,
          fallback |-> <<plan.fallback>>, verified |-> loop.verified]

\* safe_room_send(room_id, content): what it returns (result: "True" or
\* "False"), whether an exception leaves it (raised), whether the message
\* reached the room (delivered), and the attempts it made
safe_room_send(plan) ==
    LET loop == PrimaryLoop(plan, 0, <<>>, 0) IN
    IF loop.sent
    THEN [result |-> "True", raised |-> FALSE, delivered |-> TRUE,
          primary |-> loop.log, fallback |-> <<>>, verified |-> loop.verified]
    ELSE LET http == send_unencrypted_message(plan.fallback) IN
         [result |-> IF http.raised THEN "False" ELSE "True",
          raised |-> FALSE,
          delivered |-> http.delivered,
          primary |-> loop.log,
          fallback |-> <<plan.fallback>>,
          verified |-> loop.verified]

(***************************************************************************)
(* Reply texts.  A reply is the template of the f-string the code formats  *)
(* and the values it formats into it.                                      *)
(***************************************************************************)
Text(tpl) ==
    [tpl |-> tpl, str |-> "", seq |-> <<>>, num |-> 0, num2 |-> 0,
     sid |-> NoSession]
TextStr(tpl, s) == [Text(tpl) EXCEPT !.str = s]
TextSeq(tpl, q) == [Text(tpl) EXCEPT !.seq = q]
TextNum(tpl, n) == [Text(tpl) EXCEPT !.num = n]
TextSid(tpl, id, s) == [Text(tpl) EXCEPT !.sid = id, !.str = s]

\* send_text_message(room_id, text): one call of safe_room_send
send_text_message(room_id, text, plan) ==
    [room |-> room_id, text |-> text, via |-> "safe_room_send",
     send |-> safe_room_send(plan)]

\* a direct call of send_unencrypted_message(room_id, text), which returns
\* None
send_direct(room_id, text, outcome) ==
    LET http == send_unencrypted_message(outcome) IN
    [room |-> room_id, text |-> text, via |-> "send_unencrypted_message",
     send |-> [result |-> "None", raised |-> http.raised,
               delivered |-> http.delivered, primary |-> <<>>,
               fallback |-> <<outcome>>, verified |-> 0]]

(***************************************************************************)
(* Events.  An event has the fields the callbacks read: room.room_id,      *)
(* event.sender, source.origin_server_ts, event.state_key (invites),       *)
(* event.body (the text, or the file name); for an encrypted event, inner  *)
(* is what client.decrypt_event makes of it.                               *)
(***************************************************************************)
\* what on_file reads of a file event besides the header: event.file
\* (mimetype "" when event.file is missing or has none, size -1 when it has
\* none), source.content.info (mimetype and size, when present) and event.url
FileMeta(file_mimetype, file_size, info_has_mimetype, info_mimetype, info_size, has_url) ==
    [file_mimetype |-> file_mimetype, file_size |-> file_size,
     info_has_mimetype |-> info_has_mimetype, info_mimetype |-> info_mimetype,
     info_size |-> info_size, has_url |-> has_url]

NoFileMeta == FileMeta("", -1, FALSE, "", -1, FALSE)

\* a size that is present in source.content.info and is not a number (a JSON
\* string or null): the source is read as it came
NotANumber == -2

Event(kind, room, sender, ts, state_key, body) ==
    [kind |-> kind, room |-> room, sender |-> sender, ts |-> ts,
     state_key |-> state_key, body |-> body, meta |-> NoFileMeta,
     inner |-> "none"]

FileEvent(room, sender, ts, body, meta) ==
    [Event("file", room, sender, ts, "", body) EXCEPT !.meta = meta]

NoEvent == Event("none", "", "", 0, "", <<>>)

\* the event's state key in the place of its sender
IsOwnByStateKey(e) == e.state_key = user_id

\* event.sender == self.client.user_id
IsOwn(e) == e.sender = user_id

\* should_process_message with `<=` in the place of `<`
should_process_message_strict(event_ts) ==
    IF event_ts = 0 THEN TRUE
    ELSE IF event_ts <= start_time THEN FALSE
    ELSE TRUE

\* should_process_message(event) on the event's origin_server_ts (0 when the
\* source has none)
should_process_message(event_ts) ==
    IF event_ts = 0 THEN TRUE
    ELSE IF event_ts < start_time THEN FALSE
    ELSE TRUE

\* the command words and texts of the model
CmdReset == <<"!", "r", "e", "s", "e", "t">>
CmdSession == <<"!", "s", "e", "s", "s", "i", "o", "n">>
CmdHelp == <<"!", "h", "e", "l", "p">>
CmdStart == <<"!", "s", "t", "a", "r", "t">>
CmdStatus == <<"!", "s", "t", "a", "t", "u", "s">>
CmdUnknown == <<"!", "f", "o", "o">>
CmdRag == <<"!", "r", "a", "g">>
CmdResetPadded == <<"!", "r", "e", "s", "e", "t", " ">>
PlainHi == <<"h", "i">>
PlainPadded == <<" ", "!", "r", "e", "s", "e", "t">>

(***************************************************************************)
(* What a callback did: the two caches after it, and what it sent, asked,  *)
(* joined, downloaded and logged.                                          *)
(***************************************************************************)
NoResponse ==
    [kind |-> "none", status |-> 0, json |-> "", has_text |-> FALSE,
     text_is_str |-> FALSE, text |-> <<>>]

NoFileInfo == [resolved |-> FALSE, name |-> <<>>, mime |-> "", size |-> 0]

\* a callback that returned before doing anything, in state (sc, fc)
Nothing(sc, fc) ==
    [session_cache |-> sc, file_cache |-> fc, replies |-> <<>>,
     requests |-> <<>>, response |-> NoResponse, joins |-> <<>>,
     downloads |-> <<>>, file_info |-> NoFileInfo, old_session |-> NoSession,
     prior |-> <<>>, decrypts |-> <<>>, raised |-> FALSE]

\* whether an exception left the last send of a callback's sends
LastRaised(sends) == sends # <<>> /\ sends[Len(sends)].send.raised

(***************************************************************************)
(* Command processor (handle_command).                                     *)
(***************************************************************************)
flowise_url == "http://flowise/api/v1/prediction/flow"

handle_command(sc, fc, room, body, plan) ==
    LET command == Strip(body)
        done ==
    CASE command = CmdReset ->
            IF room \in DOMAIN sc
            THEN [Nothing(DictPop(sc, room), fc) EXCEPT
                    !.old_session = sc[room],
                    !.replies = <<send_text_message(room, Text("reset_done"), plan)>>]
            ELSE [Nothing(sc, fc) EXCEPT
                    !.replies = <<send_text_message(room, Text("reset_none"), plan)>>]
      [] command = CmdSession ->
            LET s == get_or_create_session(sc, room) IN
            [Nothing(s.cache, fc) EXCEPT
                !.replies = <<send_text_message(
                                room, TextSid("session_id", s.id, room), plan)>>]
      [] command = CmdHelp \/ command = CmdStart ->
            [Nothing(sc, fc) EXCEPT
                !.replies = <<send_text_message(room, Text("help"), plan)>>]
      [] command = CmdStatus ->
            [Nothing(sc, fc) EXCEPT
                !.replies = <<send_text_message(
                    room,
                    [Text("status") EXCEPT !.str = flowise_url,
                                           !.num = Cardinality(DOMAIN sc),
                                           !.num2 = Cardinality(DOMAIN fc)],
                    plan)>>]
      [] OTHER ->
            [Nothing(sc, fc) EXCEPT
                !.replies = <<send_text_message(
                                room, TextSeq("unknown_command", command), plan)>>]
    IN  \* no send of handle_command is inside a try
        [done EXCEPT !.raised = LastRaised(done.replies)]

(***************************************************************************)
(* Text messages (on_message) and the Flowise request.                     *)
(***************************************************************************)
\* the length above which an answer is cut
AnswerCutoff == 4000

\* result.get('text', ...)'s default, and the notice appended to a cut answer
DefaultAnswer == <<"N", "o", " ", "r", "e", "s", "p", "o", "n", "s", "e", " ", "f", "r", "o", "m", " ", "F", "l", "o", "w", "i", "s", "e">>
TruncationNotice == <<".", ".", ".", "\n", "\n", "(", "t", "r", "u", "n", "c", "a", "t", "e", "d", ")">>

\* what the Flowise request can meet: an HTTP response (status, and for the
\* body: whether it parses as JSON, is a JSON object, has a "text" member,
\* and whether that member is a string), a client-side timeout
\* (asyncio.TimeoutError), or another exception (connection error)
Http(status, json, has_text, text_is_str, text) ==
    [kind |-> "http", status |-> status, json |-> json, has_text |-> has_text,
     text_is_str |-> text_is_str, text |-> text]
Timeout == [NoResponse EXCEPT !.kind = "timeout"]
ConnectionError == [NoResponse EXCEPT !.kind = "error"]

\* Ask without the branch for status 413
Ask_without_413(ds) ==
    CASE ds.kind = "timeout" -> [raised |-> "timeout", answer |-> Text("")]
      [] ds.kind = "error" -> [raised |-> "exception", answer |-> Text("")]
      [] ds.kind = "http" /\ ds.status = 200 /\ ds.json = "object"
         /\ ds.has_text /\ ds.text_is_str /\ Len(ds.text) <= AnswerCutoff ->
            [raised |-> "none", answer |-> TextSeq("answer", ds.text)]
      [] ds.kind = "http" /\ ds.status = 200 ->
            [raised |-> "exception", answer |-> Text("")]
      [] OTHER ->
            [raised |-> "none", answer |-> TextNum("flowise_error", ds.status)]

\* the body of the `async with session.post(...)` block: the exception that
\* leaves it, or the answer it computes
Ask(ds) ==
    CASE ds.kind = "timeout" -> [raised |-> "timeout", answer |-> Text("")]
      [] ds.kind = "error" -> [raised |-> "exception", answer |-> Text("")]
      [] ds.kind = "http" /\ ds.status = 200 ->
            IF ds.json # "object"
            THEN \* response.json() raises, or result has no get()
                 [raised |-> "exception", answer |-> Text("")]
            ELSE LET answer == IF ds.has_text THEN ds.text ELSE DefaultAnswer IN
                 IF ds.has_text /\ ~ds.text_is_str
                 THEN \* len(answer) raises TypeError
                      [raised |-> "exception", answer |-> Text("")]
                 ELSE IF Len(answer) > AnswerCutoff
                 THEN [raised |-> "none",
                       answer |-> TextSeq("answer",
                           Prefix(answer, AnswerCutoff) \o TruncationNotice)]
                 ELSE [raised |-> "none", answer |-> TextSeq("answer", answer)]
      [] ds.kind = "http" /\ ds.status = 413 ->
            [raised |-> "none", answer |-> Text("too_large")]
      [] OTHER ->
            [raised |-> "none", answer |-> TextNum("flowise_error", ds.status)]

\* the request body of on_message and the total timeout it is sent with
FlowiseRequest(question, session_id, file) ==
    [question |-> question,
     session_id |-> session_id,
     overrideConfig |-> [sessionId |-> session_id],
     uploads |-> IF file # <<>>
                 THEN <<[data |-> [mime |-> file[1].mime, base64 |-> file[1].data],
                         type |-> "file:full",
                         name |-> file[1].name,
                         mime |-> file[1].mime]>>
                 ELSE <<>>,
     timeout |-> IF file # <<>> THEN 120 ELSE 60]

\* a key of the room alone
CacheKeyOfRoom(e) == <<e.room, "">>

\* cache_key = (room.room_id, event.sender)
CacheKey(e) == <<e.room, e.sender>>

\* file_cache.get(cache_key) in the place of pop: the entry stays
file_cache_get(fc, cache_key) ==
    [file |-> IF cache_key \in DOMAIN fc THEN <<fc[cache_key]>> ELSE <<>>,
     cache |-> fc]

\* a pop that takes the entries of every sender in the room with it
file_cache_pop_room(fc, cache_key) ==
    [file |-> IF cache_key \in DOMAIN fc THEN <<fc[cache_key]>> ELSE <<>>,
     cache |-> [k \in {x \in DOMAIN fc : x[1] # cache_key[1]} |-> fc[k]]]

\* file_cache.pop(cache_key, None): the entry found (none: <<>>) and the
\* cache after the call
file_cache_pop(fc, cache_key) ==
    [file |-> IF cache_key \in DOMAIN fc THEN <<fc[cache_key]>> ELSE <<>>,
     cache |-> DictPop(fc, cache_key)]

\* the session looked up under the sender in the place of the room
SessionForSender(sc, e) == get_or_create_session(sc, e.sender)

\* line 550: the session of the event's room
SessionFor(sc, e) == get_or_create_session(sc, e.room)

\* on_message(room, event) in state (sc, fc); ds is what the Flowise request
\* meets, plan what the send of the reply meets
on_message(sc, fc, e, ds, plan) ==
    IF IsOwn(e) THEN Nothing(sc, fc)
    ELSE IF ~should_process_message(e.ts) THEN Nothing(sc, fc)
    ELSE IF StartsWith(e.body, "!") THEN handle_command(sc, fc, e.room, e.body, plan)
    ELSE
    LET popped == file_cache_pop(fc, CacheKey(e))
        s == SessionFor(sc, e)
        data == FlowiseRequest(e.body, s.id, popped.file)
        asked == Ask(ds)
        \* line 598, inside the try
        first == send_text_message(e.room, asked.answer, plan)
        sent == CASE asked.raised = "timeout" ->
                        <<send_text_message(e.room, Text("timeout"), plan)>>
                  [] asked.raised = "exception" ->
                        <<send_text_message(e.room, TextStr("error", ds.kind), plan)>>
                  [] OTHER ->
                        IF first.send.raised
                        THEN <<first, send_text_message(
                                        e.room, TextStr("error", "send"), plan)>>
                        ELSE <<first>>
    IN  [Nothing(s.cache, popped.cache) EXCEPT
            !.requests = <<data>>,
            !.response = ds,
            !.replies = sent,
            \* the sends of the except blocks are not inside a try
            !.raised = LastRaised(sent)]

(***************************************************************************)
(* Invites (on_invite) and encrypted events (on_encrypted_event).          *)
(***************************************************************************)
\* client.join: returns a JoinResponse, returns a JoinError, or raises
JoinOutcomes == {"joined", "join_error", "raises"}

\* on_invite without its try: an exception of client.join leaves it
on_invite_unguarded(sc, fc, e, join) ==
    IF e.state_key = user_id
    THEN IF join = "raises"
         THEN [Nothing(sc, fc) EXCEPT
                 !.joins = <<[room |-> e.room, outcome |-> join]>>,
                 !.raised = TRUE]
         ELSE [Nothing(get_or_create_session(sc, e.room).cache, fc) EXCEPT
                 !.joins = <<[room |-> e.room, outcome |-> join]>>]
    ELSE Nothing(sc, fc)

\* on_invite without the check of the state key
on_invite_of_anyone(sc, fc, e, join) ==
    IF join = "raises"
    THEN [Nothing(sc, fc) EXCEPT
            !.joins = <<[room |-> e.room, outcome |-> join]>>]
    ELSE [Nothing(get_or_create_session(sc, e.room).cache, fc) EXCEPT
            !.joins = <<[room |-> e.room, outcome |-> join]>>]

\* on_invite(room, event); join is what client.join meets.  joins records
\* the room of the join request and what the request met
on_invite(sc, fc, e, join) ==
    IF e.state_key = user_id
    THEN IF join = "raises"
         THEN [Nothing(sc, fc) EXCEPT
                 !.joins = <<[room |-> e.room, outcome |-> join]>>]
         ELSE [Nothing(get_or_create_session(sc, e.room).cache, fc) EXCEPT
                 !.joins = <<[room |-> e.room, outcome |-> join]>>]
    ELSE Nothing(sc, fc)

\* the callback registered for MegolmEvent: no call of client.decrypt_event
on_encrypted_event(sc, fc, e, outcome) ==
    LET notice == send_direct(e.room, Text("encryption_unsupported"), outcome) IN
    [Nothing(sc, fc) EXCEPT
        !.replies = <<notice>>,
        !.raised = notice.send.raised]

(***************************************************************************)
(* Files (on_file, download_and_encode_file, MIME_TO_EXTENSION).           *)
(***************************************************************************)
\* list(MIME_TO_EXTENSION.keys())
SupportedTypes ==
    {"application/pdf",
     "text/plain",
     "application/vnd.openxmlformats-officedocument.wordprocessingml.document",
     "application/json",
     "text/csv",
     "image/jpeg",
     "image/png",
     "image/gif",
     "text/markdown",
     "text/x-python",
     "application/x-python-code",
     "application/javascript",
     "text/html",
     "text/css",
     "application/vnd.ms-excel",
     "application/vnd.openxmlformats-officedocument.spreadsheetml.sheet"}

\* MIME_TO_EXTENSION[mime], for mime in SupportedTypes
MIME_TO_EXTENSION(mime) ==
    CASE mime = "application/pdf" -> <<".", "p", "d", "f">>
      [] mime = "text/plain" -> <<".", "t", "x", "t">>
      [] mime = "application/vnd.openxmlformats-officedocument.wordprocessingml.document" ->
            <<".", "d", "o", "c", "x">>
      [] mime = "application/json" -> <<".", "j", "s", "o", "n">>
      [] mime = "text/csv" -> <<".", "c", "s", "v">>
      [] mime = "image/jpeg" -> <<".", "j", "p", "g">>
      [] mime = "image/png" -> <<".", "p", "n", "g">>
      [] mime = "image/gif" -> <<".", "g", "i", "f">>
      [] mime = "text/markdown" -> <<".", "m", "d">>
      [] mime = "text/x-python" -> <<".", "p", "y">>
      [] mime = "application/x-python-code" -> <<".", "p", "y">>
      [] mime = "application/javascript" -> <<".", "j", "s">>
      [] mime = "text/html" -> <<".", "h", "t", "m", "l">>
      [] mime = "text/css" -> <<".", "c", "s", "s">>
      [] mime = "application/vnd.ms-excel" ->
            <<".", "x", "l", "s">>
      [] mime = "application/vnd.openxmlformats-officedocument.spreadsheetml.sheet" ->
            <<".", "x", "l", "s", "x">>

OctetStream == "application/octet-stream"

\* the bytes of a download are a content and a length
MaxFileBytes == 100 * 1024 * 1024

\* client.download: a response with a body, a response without one, or an
\* exception
Body(content, len) == [kind |-> "body", content |-> content, len |-> len]
NoBody == [kind |-> "no_body", content |-> "", len |-> 0]
DownloadRaises == [kind |-> "raises", content |-> "", len |-> 0]

\* base64.b64encode(body).decode(): 4 characters for every 3 bytes begun
b64encode(content, len) == [base64_of |-> content, len |-> 4 * ((len + 2) \div 3)]

NoData == [base64_of |-> "", len |-> 0]

\* download_and_encode_file without the limit on the size
download_and_encode_file_unlimited(dl) ==
    IF dl.kind = "body"
    THEN [none |-> FALSE, data |-> b64encode(dl.content, dl.len)]
    ELSE [none |-> TRUE, data |-> NoData]

\* download_and_encode_file(mxc_url): none |-> TRUE stands for None
download_and_encode_file(dl) ==
    IF dl.kind = "body"
    THEN IF dl.len > MaxFileBytes
         THEN [none |-> TRUE, data |-> NoData]
         ELSE [none |-> FALSE, data |-> b64encode(dl.content, dl.len)]
    ELSE [none |-> TRUE, data |-> NoData]

\* lines 366-390 of on_file: the file name, MIME type and size it resolves
ResolveFile(body, meta) ==
    LET name0 == IF body = <<>> THEN <<"f", "i", "l", "e">> ELSE body
        mime1 == IF meta.file_mimetype # "" THEN meta.file_mimetype ELSE OctetStream
        size1 == IF meta.file_size # -1 THEN meta.file_size ELSE 0
        from_source == mime1 = OctetStream
        mime2 == IF from_source /\ meta.info_has_mimetype
                 THEN meta.info_mimetype ELSE mime1
        size2 == IF from_source /\ meta.info_size # -1
                 THEN meta.info_size ELSE size1
        name1 == IF ~Contains(name0, ".") /\ mime2 \in SupportedTypes
                 THEN name0 \o MIME_TO_EXTENSION(mime2) ELSE name0
    IN  [resolved |-> TRUE, name |-> name1, mime |-> mime2, size |-> size2]

\* lines 397-404 of on_file: the type is not supported
RejectFile(sc, fc, e, info, plan) ==
    [Nothing(sc, fc) EXCEPT
        !.file_info = info,
        !.replies = <<send_text_message(
                        e.room, TextStr("unsupported_format", info.mime), plan)>>]

\* lines 406-439 of on_file: the type is supported
FetchFile(sc, fc, e, info, dl, plan) ==
    IF e.meta.has_url
    THEN LET file_data == download_and_encode_file(dl) IN
         IF ~file_data.none /\ file_data.data.len > 0 /\ info.size = NotANumber
         THEN \* the entry is assigned (lines 411-416); `file_size > 0` of line
              \* 420 raises TypeError, and the except block of lines 441-449
              \* sends the error text
              LET report == send_text_message(
                              e.room, TextStr("file_error", "TypeError"), plan) IN
              [Nothing(sc,
                       DictSet(fc, CacheKey(e),
                               [data |-> file_data.data, mime |-> info.mime,
                                name |-> info.name, size |-> info.size])) EXCEPT
                 !.file_info = info,
                 !.prior = IF CacheKey(e) \in DOMAIN fc
                           THEN <<fc[CacheKey(e)]>> ELSE <<>>,
                 !.downloads = <<dl>>,
                 !.replies = <<report>>,
                 !.raised = report.send.raised]
         ELSE IF ~file_data.none /\ file_data.data.len > 0
         THEN [Nothing(sc,
                       DictSet(fc, CacheKey(e),
                               [data |-> file_data.data, mime |-> info.mime,
                                name |-> info.name, size |-> info.size])) EXCEPT
                 !.file_info = info,
                 !.prior = IF CacheKey(e) \in DOMAIN fc
                           THEN <<fc[CacheKey(e)]>> ELSE <<>>,
                 !.downloads = <<dl>>,
                 !.replies = <<send_text_message(
                     e.room,
                     [TextSeq("file_received", info.name) EXCEPT !.num = info.size],
                     plan)>>]
         ELSE [Nothing(sc, fc) EXCEPT
                 !.file_info = info,
                 !.downloads = <<dl>>,
                 !.replies = <<send_text_message(
                                 e.room, TextSeq("download_failed", info.name), plan)>>]
    ELSE [Nothing(sc, fc) EXCEPT
            !.file_info = info,
            !.replies = <<send_text_message(
                            e.room, TextSeq("no_url", info.name), plan)>>]

\* lines 441-449 of on_file: an exception that leaves the try block (here:
\* one of its send) is answered with the error text, outside any try
OnFileExcept(r, e, plan) ==
    IF LastRaised(r.replies) /\ r.replies[Len(r.replies)].text.tpl # "file_error"
    THEN LET report == send_text_message(
                         e.room, TextStr("file_error", "send"), plan) IN
         [r EXCEPT !.replies = Append(@, report),
                   !.raised = report.send.raised]
    ELSE r

\* on_file without the check of the type
on_file_unchecked(sc, fc, e, dl, plan) ==
    IF IsOwn(e) THEN Nothing(sc, fc)
    ELSE IF ~should_process_message(e.ts) THEN Nothing(sc, fc)
    ELSE OnFileExcept(
            FetchFile(sc, fc, e, ResolveFile(e.body, e.meta), dl, plan), e, plan)

\* on_file(room, event) in state (sc, fc); dl is what the download meets,
\* plan what the send of the reply meets
on_file(sc, fc, e, dl, plan) ==
    IF IsOwn(e) THEN Nothing(sc, fc)
    ELSE IF ~should_process_message(e.ts) THEN Nothing(sc, fc)
    ELSE
    LET info == ResolveFile(e.body, e.meta) IN
    OnFileExcept(IF info.mime \notin SupportedTypes
                 THEN RejectFile(sc, fc, e, info, plan)
                 ELSE FetchFile(sc, fc, e, info, dl, plan),
                 e, plan)

\* client.decrypt_event on a RoomEncryptedFile: a RoomMessageFile, an event
\* of another type, or an exception
DecryptOutcomes == {"file", "other", "raises"}

\* on_encrypted_file(room, event): first and second are what the first call
\* of client.decrypt_event and the one after verify_all_devices meet; e
\* carries the body and the file metadata of the decrypted event
on_encrypted_file(sc, fc, e, first, second, dl, plan) ==
    LET attempts == IF first = "raises" THEN <<first, second>> ELSE <<first>>
        decrypted == attempts[Len(attempts)]
        inner == IF decrypted = "file"
                 THEN on_file(sc, fc, e, dl, plan)
                 ELSE Nothing(sc, fc)
        failed == decrypted = "raises" \/ inner.raised
        \* lines 472-481, outside any try
        report == send_text_message(
                    e.room,
                    TextStr("encrypted_file_error",
                            IF decrypted = "raises" THEN "decrypt" ELSE "send"),
                    plan)
    IN  [inner EXCEPT
            !.decrypts = attempts,
            !.replies = IF failed THEN Append(@, report) ELSE @,
            !.raised = failed /\ report.send.raised]

(***************************************************************************)
(* Startup and the sync loop (run, login_with_retry, init_olm).            *)
(***************************************************************************)
\* the default of login_with_retry's retries
retries == 3

\* client.login: a LoginResponse, a LoginError, or an exception
LoginOutcomes == {"ok", "login_error", "raises"}

LoginPlans == [1..retries -> LoginOutcomes]

RECURSIVE Pow2(_)
Pow2(n) == IF n = 0 THEN 1 ELSE 2 * Pow2(n - 1)

\* the for loop of login_with_retry from attempt number `attempt` (0-based)
\* on; slept is the delays of asyncio.sleep so far, logins what the login
\* requests made have met.  A LoginError and an
\* exception end alike: a sleep and the next attempt, or, at the last
\* attempt, an exception that leaves the method
RECURSIVE LoginLoop(_, _, _)
LoginLoop(plan, attempt, slept) ==
    IF attempt >= retries
    THEN [returns |-> "False", raised |-> FALSE,
          logins |-> SubSeq(plan, 1, attempt), slept |-> slept]
    ELSE IF plan[attempt + 1] = "ok"
    THEN [returns |-> "True", raised |-> FALSE,
          logins |-> SubSeq(plan, 1, attempt + 1), slept |-> slept]
    ELSE IF attempt < retries - 1
    THEN LoginLoop(plan, attempt + 1, Append(slept, Pow2(attempt)))
    ELSE [returns |-> "None", raised |-> TRUE,
          logins |-> SubSeq(plan, 1, attempt + 1), slept |-> slept]

\* login_with_retry that goes on to the next step of the startup when its
\* attempts are used up
login_with_retry_lenient(plan) ==
    [LoginLoop(plan, 0, <<>>) EXCEPT !.returns = "True", !.raised = FALSE]

\* login_with_retry(): what it returns or that it raises, and the login
\* requests it made
login_with_retry(plan) == LoginLoop(plan, 0, <<>>)

\* what init_olm meets: client.olm is set already; load_store raises; the
\* store has an account; it has none and client.login is called once more,
\* and returns or raises
InitOlmOutcomes ==
    {"olm_present", "store_raises", "account_loaded", "login_again",
     "login_again_raises"}

\* init_olm(): no exception leaves it; logins is what the login request of
\* line 106 met, when it was made
init_olm(outcome) ==
    [raised |-> FALSE,
     logins |-> CASE outcome = "login_again" -> <<"ok">>
                  [] outcome = "login_again_raises" -> <<"raises">>
                  [] OTHER -> <<>>]

\* run() before its first statement; logins and olm_logins are what the
\* login requests of login_with_retry and of init_olm met, errors is the
\* exceptions that have left client.sync_forever
Constructed ==
    [pc |-> "constructed", logins |-> <<>>, olm_logins |-> <<>>,
     slept |-> <<>>, callbacks |-> FALSE,
     syncs |-> 0, verified |-> 0, errors |-> <<>>, closed |-> FALSE,
     fatal |-> ""]

\* the end of run(): `return` or `except Exception`, then `finally`
Stop(r, why) == [r EXCEPT !.pc = "stopped", !.closed = TRUE, !.fatal = why]

\* client.sync of line 737: a response, an empty response, or an exception
InitialSyncOutcomes == {"ok", "empty", "raises"}

\* run() up to its while loop: plan is what the login attempts meet, olm
\* what init_olm meets, token whether the client has a user id and an access
\* token after the login, sync what the initial sync meets
Startup(plan, olm, token, sync) ==
    LET login == login_with_retry(plan)
        after_login == [Constructed EXCEPT !.logins = login.logins,
                                           !.slept = login.slept]
    IN
    IF login.raised THEN Stop(after_login, "login")
    ELSE IF login.returns # "True" THEN Stop(after_login, "login")
    ELSE
    LET after_olm == [after_login EXCEPT !.olm_logins = init_olm(olm).logins] IN
    IF ~token THEN Stop(after_olm, "token")
    ELSE
    LET registered == [after_olm EXCEPT !.callbacks = TRUE, !.syncs = 1] IN
    IF sync = "raises" THEN Stop(registered, "initial_sync")
    ELSE [registered EXCEPT !.pc = "syncing", !.syncs = 2]

\* what can leave client.sync_forever: OlmUnverifiedDeviceError, or another
\* exception ("callback": one that left an event callback)
SyncErrors == {"unverified", "other"}

\* the sync loop is interrupted by device-trust errors at most this often
MaxInterrupts == 3

\* the while loop of run() without its except clause
on_sync_error_fatal(r, error) ==
    Stop([r EXCEPT !.errors = Append(@, error)], "sync")

\* lines 747-758: an exception leaves sync_forever
on_sync_error(r, error) ==
    IF error = "unverified"
    THEN [r EXCEPT !.errors = Append(@, error),
                   !.verified = verify_all_devices(@),
                   !.syncs = @ + 1]
    ELSE Stop([r EXCEPT !.errors = Append(@, error)], "sync")

(***************************************************************************)
(* The environments the bot is run in.  An environment gives the sets the  *)
(* inputs of the callbacks are drawn from.                                 *)
(***************************************************************************)
Timestamps == 0..MaxTs

\* a send that succeeds at once; one that meets a device-trust error, a key
\* error and a device-trust error and then succeeds over HTTP; one that
\* fails at once and fails over HTTP too
OkPlan == [primary |-> [i \in 1..max_retries |-> "ok"], fallback |-> 200]
RetryPlan ==
    [primary |-> [i \in 1..max_retries |->
                    IF i = 2 THEN "keyerror" ELSE "unverified"],
     fallback |-> 200]
FailPlan == [primary |-> [i \in 1..max_retries |-> "error"], fallback |-> 500]

\* a login that succeeds at the first attempt
SmoothLogin == [i \in 1..retries |-> "ok"]

Answer42 == <<"4", "2">>
\* an answer of n characters whose last character differs from the others
LongAnswer(n) == [i \in 1..n |-> IF i = n THEN "z" ELSE "a"]

PdfInfo == FileMeta("", -1, TRUE, "application/pdf", 1024, TRUE)
ZipInfo == FileMeta("", -1, TRUE, "application/zip", 2048, TRUE)
NameDoc == <<"d", "o", "c">>
NameReport == <<"a", ".", "p", "d", "f">>

\* two rooms, two users and the bot itself, every command, the main
\* outcomes of every request
Wide ==
    [rooms |-> {Room1, Room2},
     senders |-> {Alice, Bob, user_id},
     inviters |-> {Alice},
     state_keys |-> {user_id, Alice},
     ts |-> Timestamps,
     bodies |-> {CmdReset, CmdSession, CmdHelp, CmdStart, CmdStatus,
                 CmdUnknown, PlainHi},
     ds |-> {Http(200, "object", TRUE, TRUE, Answer42),
             Http(500, "invalid", FALSE, FALSE, <<>>),
             Timeout},
     plans |-> {OkPlan},
     names |-> {NameDoc},
     metas |-> {PdfInfo, ZipInfo},
     dls |-> {Body("bytes-1", 5), NoBody},
     joins |-> JoinOutcomes,
     inners |-> {"fails", "text", "file"},
     decrypts |-> DecryptOutcomes,
     logins |-> {SmoothLogin},
     olms |-> {"olm_present"},
     tokens |-> {TRUE},
     syncs |-> {"ok"},
     fallbacks |-> {200}]

\* one room and one user, every text, every outcome of the Flowise request,
\* sends that succeed, retry and fail
Gateway ==
    [rooms |-> {Room1},
     senders |-> {Alice, user_id},
     inviters |-> {Alice},
     state_keys |-> {user_id, Alice},
     ts |-> Timestamps,
     bodies |-> {CmdReset, CmdSession, CmdHelp, CmdStart, CmdStatus,
                 CmdUnknown, CmdRag, CmdResetPadded, PlainHi, PlainPadded},
     ds |-> {Http(200, "object", TRUE, TRUE, Answer42),
             Http(200, "object", TRUE, TRUE, LongAnswer(AnswerCutoff)),
             Http(200, "object", TRUE, TRUE, LongAnswer(AnswerCutoff + 1)),
             Http(200, "object", FALSE, FALSE, <<>>),
             Http(200, "object", TRUE, FALSE, <<>>),
             Http(200, "array", FALSE, FALSE, <<>>),
             Http(200, "invalid", FALSE, FALSE, <<>>),
             Http(413, "invalid", FALSE, FALSE, <<>>),
             Http(404, "object", TRUE, TRUE, Answer42),
             Http(500, "invalid", FALSE, FALSE, <<>>),
             Timeout,
             ConnectionError},
     plans |-> {OkPlan, RetryPlan, FailPlan},
     names |-> {NameDoc},
     metas |-> {PdfInfo, ZipInfo},
     dls |-> {Body("bytes-1", 5), Body("bytes-over", MaxFileBytes + 1), NoBody,
              DownloadRaises},
     joins |-> JoinOutcomes,
     inners |-> {"fails"},
     decrypts |-> DecryptOutcomes,
     logins |-> {SmoothLogin},
     olms |-> {"olm_present"},
     tokens |-> {TRUE},
     syncs |-> {"ok"},
     fallbacks |-> FallbackOutcomes]

\* one room and one user, every way a file event declares its type, every
\* outcome of the download
Files ==
    [rooms |-> {Room1},
     senders |-> {Alice, user_id},
     inviters |-> {Alice},
     state_keys |-> {user_id, Alice},
     ts |-> {0, start_time - 1, start_time},
     bodies |-> {CmdReset, PlainHi},
     ds |-> {Http(200, "object", TRUE, TRUE, Answer42)},
     plans |-> {OkPlan},
     names |-> {NameDoc, NameReport, <<>>},
     metas |-> {FileMeta("application/pdf", 10, FALSE, "", -1, TRUE),
                FileMeta("application/pdf", 10, TRUE, "application/zip", 20, TRUE),
                PdfInfo,
                ZipInfo,
                FileMeta("application/x-msdownload", -1, TRUE, "application/pdf",
                         20, TRUE),
                FileMeta("", -1, FALSE, "", -1, TRUE),
                FileMeta(OctetStream, 10, TRUE, "image/png", -1, TRUE),
                FileMeta("", -1, TRUE, "", 20, TRUE),
                FileMeta("", -1, TRUE, "application/pdf", 1024, FALSE),
                FileMeta("", -1, TRUE, "text/plain", NotANumber, TRUE)},
     dls |-> {Body("bytes-1", 5), Body("", 0), Body("bytes-max", MaxFileBytes),
              Body("bytes-over", MaxFileBytes + 1), NoBody, DownloadRaises},
     joins |-> {"joined"},
     inners |-> {"fails"},
     decrypts |-> {"file", "raises"},
     logins |-> {SmoothLogin},
     olms |-> {"olm_present"},
     tokens |-> {TRUE},
     syncs |-> {"ok"},
     fallbacks |-> {200}]

\* two rooms and two users who upload one of two files and ask about it
Uploads ==
    [rooms |-> {Room1, Room2},
     senders |-> {Alice, Bob},
     inviters |-> {Alice},
     state_keys |-> {user_id},
     ts |-> {start_time},
     bodies |-> {CmdHelp, PlainHi},
     ds |-> {Http(200, "object", TRUE, TRUE, Answer42), Timeout},
     plans |-> {OkPlan},
     names |-> {NameDoc},
     metas |-> {PdfInfo},
     dls |-> {Body("bytes-1", 5), Body("bytes-2", 8), NoBody},
     joins |-> {"joined"},
     inners |-> {"fails"},
     decrypts |-> {"file", "raises"},
     logins |-> {SmoothLogin},
     olms |-> {"olm_present"},
     tokens |-> {TRUE},
     syncs |-> {"ok"},
     fallbacks |-> {200}]

\* every course of the startup, and a sync loop that is interrupted, around
\* one room and one user
Lifecycle ==
    [rooms |-> {Room1},
     senders |-> {Alice, user_id},
     inviters |-> {Alice},
     state_keys |-> {user_id},
     ts |-> {start_time},
     bodies |-> {CmdHelp, PlainHi},
     ds |-> {Http(200, "object", TRUE, TRUE, Answer42), Timeout},
     plans |-> {OkPlan, FailPlan},
     names |-> {NameDoc},
     metas |-> {PdfInfo},
     dls |-> {Body("bytes-1", 5), DownloadRaises},
     joins |-> JoinOutcomes,
     inners |-> {"fails"},
     decrypts |-> {"file", "raises"},
     logins |-> LoginPlans,
     olms |-> InitOlmOutcomes,
     tokens |-> BOOLEAN,
     syncs |-> InitialSyncOutcomes,
     sync_errors |-> SyncErrors,
     fallbacks |-> {200, 0}]

(***************************************************************************)
(* The state machine.                                                      *)
(***************************************************************************)
Init ==
    /\ session_cache = EmptyDict
    /\ file_cache = EmptyDict
    /\ ev = NoEvent
    /\ replies = <<>>
    /\ requests = <<>>
    /\ response = NoResponse
    /\ joins = <<>>
    /\ downloads = <<>>
    /\ file_info = NoFileInfo
    /\ old_session = NoSession
    /\ prior = <<>>
    /\ decrypts = <<>>
    /\ raised = FALSE
    /\ run = Constructed
    /\ in_flight = <<>>

\* the callback called with event e has returned and did r; an exception
\* that leaves the callback leaves client.sync_forever
Effects(e, r) ==
    /\ ev' = e
    /\ session_cache' = r.session_cache
    /\ file_cache' = r.file_cache
    /\ replies' = r.replies
    /\ requests' = r.requests
    /\ response' = r.response
    /\ joins' = r.joins
    /\ downloads' = r.downloads
    /\ file_info' = r.file_info
    /\ old_session' = r.old_session
    /\ prior' = r.prior
    /\ decrypts' = r.decrypts
    /\ raised' = r.raised
    /\ run' = IF r.raised THEN on_sync_error(run, "callback") ELSE run

\* the callback was called with event e and ran until it returned
Apply(e, r) == Effects(e, r) /\ in_flight' = in_flight

\* whether a text or file callback returns at its first two checks
Dropped(sender, ts) == sender = user_id \/ ~should_process_message(ts)

\* run() starts: the login, the registration of the callbacks and the
\* initial sync
Start(U) ==
    /\ run.pc = "constructed"
    /\ \E plan \in U.logins, olm \in U.olms, token \in U.tokens,
          sync \in U.syncs :
            run' = Startup(plan, olm, token, sync)
    /\ UNCHANGED <<session_cache, file_cache, ev, replies, requests, response,
                   joins, downloads, file_info, old_session, prior, decrypts,
                   raised, in_flight>>

\* an exception leaves client.sync_forever
SyncInterrupted(U) ==
    /\ run.pc = "syncing"
    /\ \E error \in U.sync_errors :
            /\ error = "unverified" => run.verified < MaxInterrupts
            /\ run' = on_sync_error(run, error)
    /\ UNCHANGED <<session_cache, file_cache, ev, replies, requests, response,
                   joins, downloads, file_info, old_session, prior, decrypts,
                   raised, in_flight>>

\* an InviteMemberEvent is delivered
OnInvite(U) ==
    /\ run.pc = "syncing"
    /\ \E room \in U.rooms, sender \in U.inviters, ts \in U.ts,
       state_key \in U.state_keys :
        LET e == Event("invite", room, sender, ts, state_key, <<>>) IN
        IF state_key = user_id
        THEN \E join \in U.joins :
                Apply(e, on_invite(session_cache, file_cache, e, join))
        ELSE Apply(e, on_invite(session_cache, file_cache, e, "joined"))

\* a RoomMessageText is delivered
OnMessage(U) ==
    /\ run.pc = "syncing"
    /\ \E room \in U.rooms, sender \in U.senders, ts \in U.ts :
        IF Dropped(sender, ts)
        THEN LET e == Event("text", room, sender, ts, "", <<>>) IN
             Apply(e, on_message(session_cache, file_cache, e, NoResponse, OkPlan))
        ELSE \E body \in U.bodies, plan \in U.plans :
                LET e == Event("text", room, sender, ts, "", body) IN
                IF StartsWith(body, "!")
                THEN Apply(e, on_message(session_cache, file_cache, e,
                                         NoResponse, plan))
                ELSE \E ds \in U.ds :
                        Apply(e, on_message(session_cache, file_cache, e, ds, plan))

\* a RoomMessageFile is delivered
OnFile(U) ==
    /\ run.pc = "syncing"
    /\ \E room \in U.rooms, sender \in U.senders, ts \in U.ts :
        IF Dropped(sender, ts)
        THEN LET e == FileEvent(room, sender, ts, <<>>, NoFileMeta) IN
             Apply(e, on_file(session_cache, file_cache, e, NoBody, OkPlan))
        ELSE \E body \in U.names, meta \in U.metas, plan \in U.plans :
                LET e == FileEvent(room, sender, ts, body, meta) IN
                IF ResolveFile(body, meta).mime \in SupportedTypes /\ meta.has_url
                THEN \E dl \in U.dls :
                        Apply(e, on_file(session_cache, file_cache, e, dl, plan))
                ELSE Apply(e, on_file(session_cache, file_cache, e, NoBody, plan))

\* a MegolmEvent is delivered: inner is what client.decrypt_event would
\* make of it ("fails": it would raise, "text": a text message that reads
\* "hi", "file": a file message)
OnEncrypted(U) ==
    /\ run.pc = "syncing"
    /\ \E room \in U.rooms, sender \in U.inviters, ts \in U.ts,
       outcome \in U.fallbacks, inner \in U.inners :
        \E body \in IF inner = "text" THEN {PlainHi} ELSE {<<>>} :
            LET e == [Event("encrypted", room, sender, ts, "", body)
                        EXCEPT !.inner = inner] IN
            Apply(e, on_encrypted_event(session_cache, file_cache, e, outcome))

\* a RoomEncryptedFile is delivered
OnEncryptedFile(U) ==
    /\ run.pc = "syncing"
    /\ \E room \in U.rooms, sender \in U.senders, ts \in U.ts,
       first \in U.decrypts, plan \in U.plans :
        \E second \in IF first = "raises" THEN U.decrypts ELSE {first} :
            LET decrypted == IF first = "raises" THEN second ELSE first IN
            IF decrypted # "file" \/ Dropped(sender, ts)
            THEN LET e == [Event("encrypted_file", room, sender, ts, "", <<>>)
                             EXCEPT !.inner = decrypted] IN
                 Apply(e, on_encrypted_file(session_cache, file_cache, e,
                                            first, second, NoBody, plan))
            ELSE \E body \in U.names, meta \in U.metas :
                    LET e == [FileEvent(room, sender, ts, body, meta)
                                EXCEPT !.kind = "encrypted_file",
                                       !.inner = decrypted] IN
                    IF ResolveFile(body, meta).mime \in SupportedTypes
                       /\ meta.has_url
                    THEN \E dl \in U.dls :
                            Apply(e, on_encrypted_file(
                                        session_cache, file_cache, e,
                                        first, second, dl, plan))
                    ELSE Apply(e, on_encrypted_file(
                                    session_cache, file_cache, e,
                                    first, second, NoBody, plan))

Next ==
    \/ Start(Wide)
    \/ OnInvite(Wide)
    \/ OnMessage(Wide)
    \/ OnFile(Wide)
    \/ OnEncrypted(Wide)

Spec == Init /\ [][Next]_vars

\* the bot with one room and every outcome of the Flowise request
NextGateway ==
    \/ Start(Gateway)
    \/ OnInvite(Gateway)
    \/ OnMessage(Gateway)
    \/ OnFile(Gateway)
    \/ OnEncrypted(Gateway)
    \/ OnEncryptedFile(Gateway)

SpecGateway == Init /\ [][NextGateway]_vars

\* the bot with one room and every kind of file event
NextFiles ==
    \/ Start(Files)
    \/ OnInvite(Files)
    \/ OnMessage(Files)
    \/ OnFile(Files)
    \/ OnEncrypted(Files)

SpecFiles == Init /\ [][NextFiles]_vars

\* the bot with two rooms and two users who upload files
NextUploads ==
    \/ Start(Uploads)
    \/ OnInvite(Uploads)
    \/ OnMessage(Uploads)
    \/ OnFile(Uploads)
    \/ OnEncrypted(Uploads)
    \/ OnEncryptedFile(Uploads)

SpecUploads == Init /\ [][NextUploads]_vars

\* the whole of run(): every course of the startup, and the sync loop with
\* its interruptions
NextRun ==
    \/ Start(Lifecycle)
    \/ SyncInterrupted(Lifecycle)
    \/ OnInvite(Lifecycle)
    \/ OnMessage(Lifecycle)
    \/ OnFile(Lifecycle)
    \/ OnEncrypted(Lifecycle)
    \/ OnEncryptedFile(Lifecycle)

SpecRun == Init /\ [][NextRun]_vars

\* the sender alone: send_text_message is called with a text for a room,
\* under every send plan
SendTextMessage ==
    \E room \in {Room1, Room2}, tpl \in {"help", "timeout"}, plan \in SendPlans :
        Apply(Event("send", room, "", 0, "", <<>>),
              [Nothing(session_cache, file_cache) EXCEPT
                 !.replies = <<send_text_message(room, Text(tpl), plan)>>])

NextSend == SendTextMessage

SpecSend == Init /\ [][NextSend]_vars

(***************************************************************************)
(* The callbacks step by step.  A callback is a coroutine: it runs from    *)
(* its call to its first await, and from the completion of an awaited call *)
(* to the next await or to its return.  The awaited calls are the join     *)
(* (on_invite), the download (on_file), the Flowise request (on_message)   *)
(* and the sends.  run() awaits client.sync_forever, which awaits the      *)
(* callback of an event before it goes on to the next event; no task is    *)
(* created anywhere in the program.                                        *)
(***************************************************************************)
\* one user, one room, uploads and questions, seen step by step
Steps ==
    [rooms |-> {Room1},
     senders |-> {Alice, user_id},
     inviters |-> {Alice},
     state_keys |-> {user_id, Alice},
     ts |-> {1, start_time},
     bodies |-> {CmdReset, CmdStatus, PlainHi},
     ds |-> {Http(200, "object", TRUE, TRUE, Answer42), Timeout},
     plans |-> {OkPlan},
     names |-> {NameDoc},
     metas |-> {PdfInfo, ZipInfo},
     dls |-> {Body("bytes-1", 5), NoBody},
     joins |-> JoinOutcomes,
     inners |-> {"fails"},
     decrypts |-> {"file"},
     logins |-> {SmoothLogin},
     olms |-> {"olm_present"},
     tokens |-> {TRUE},
     syncs |-> {"ok"},
     fallbacks |-> {200}]

\* the callbacks that may be suspended together; one awaited after the other
\* never reaches it
MaxInFlight == 2

\* a suspended callback: the event it was called with, the call it awaits
\* (pc), what its awaited calls meet, the stores as they were when it was
\* called, and what it has done so far
Task(e, pc, ds, plan, dl, join, r) ==
    [e |-> e, pc |-> pc, ds |-> ds, plan |-> plan, dl |-> dl, join |-> join,
     sc0 |-> session_cache, fc0 |-> file_cache, r |-> r]

\* every callback is started from the task that awaits sync_forever, so the
\* next one is started at any moment
MayDispatchAnytime(flight) == TRUE

\* sync_forever calls the callback of the next event when the callback it
\* awaited has returned
MayDispatch(flight) == flight = <<>>

Dispatch ==
    /\ run.pc = "syncing"
    /\ MayDispatch(in_flight)
    /\ Len(in_flight) < MaxInFlight

\* the callback has run to an await: the stores are (sc, fc), and nothing of
\* it is seen outside yet
Suspend(t, sc, fc) ==
    /\ session_cache' = sc
    /\ file_cache' = fc
    /\ in_flight' = Append(in_flight, t)
    /\ UNCHANGED <<ev, replies, requests, response, joins, downloads,
                   file_info, old_session, prior, decrypts, raised, run>>

\* on_invite runs from its call: it awaits client.join, or returns at once
BeginOnInvite(U) ==
    /\ \E room \in U.rooms, sender \in U.inviters, ts \in U.ts,
       state_key \in U.state_keys :
        LET e == Event("invite", room, sender, ts, state_key, <<>>) IN
        IF state_key = user_id
        THEN \E join \in U.joins :
                Suspend(Task(e, "join", NoResponse, OkPlan, NoBody, join,
                             Nothing(session_cache, file_cache)),
                        session_cache, file_cache)
        ELSE Apply(e, on_invite(session_cache, file_cache, e, "joined"))

\* on_message runs from its call: it returns at its first checks, or handles
\* a command up to the send of its reply, or takes the attachment and the
\* session and awaits the Flowise request
BeginOnMessage(U) ==
    /\ \E room \in U.rooms, sender \in U.senders, ts \in U.ts :
        IF Dropped(sender, ts)
        THEN LET e == Event("text", room, sender, ts, "", <<>>) IN
             Apply(e, on_message(session_cache, file_cache, e, NoResponse, OkPlan))
        ELSE \E body \in U.bodies, plan \in U.plans :
                LET e == Event("text", room, sender, ts, "", body) IN
                IF StartsWith(body, "!")
                THEN LET r == on_message(session_cache, file_cache, e,
                                         NoResponse, plan) IN
                     Suspend(Task(e, "send", NoResponse, plan, NoBody, "joined", r),
                             r.session_cache, r.file_cache)
                ELSE \E ds \in U.ds :
                        LET r == on_message(session_cache, file_cache, e, ds, plan) IN
                        Suspend(Task(e, "post", ds, plan, NoBody, "joined", r),
                                r.session_cache, r.file_cache)

\* on_file runs from its call: it returns at its first checks, or awaits the
\* download of a supported file, or the send of its refusal
BeginOnFile(U) ==
    /\ \E room \in U.rooms, sender \in U.senders, ts \in U.ts :
        IF Dropped(sender, ts)
        THEN LET e == FileEvent(room, sender, ts, <<>>, NoFileMeta) IN
             Apply(e, on_file(session_cache, file_cache, e, NoBody, OkPlan))
        ELSE \E body \in U.names, meta \in U.metas, plan \in U.plans :
                LET e == FileEvent(room, sender, ts, body, meta) IN
                IF ResolveFile(body, meta).mime \in SupportedTypes /\ meta.has_url
                THEN \E dl \in U.dls :
                        Suspend(Task(e, "download", NoResponse, plan, dl, "joined",
                                     Nothing(session_cache, file_cache)),
                                session_cache, file_cache)
                ELSE Suspend(Task(e, "send", NoResponse, plan, NoBody, "joined",
                                  on_file(session_cache, file_cache, e, NoBody, plan)),
                             session_cache, file_cache)

\* sync_forever calls the callback of the next event
CallOnInvite(U) == Dispatch /\ BeginOnInvite(U)
CallOnMessage(U) == Dispatch /\ BeginOnMessage(U)
CallOnFile(U) == Dispatch /\ BeginOnFile(U)

\* in_flight without its i-th callback
Returned(i) == SubSeq(in_flight, 1, i - 1) \o SubSeq(in_flight, i + 1, Len(in_flight))

\* the call a suspended callback awaits completes: the callback runs on, in
\* the stores as they are now, to its next await or to its return
Resume ==
    \E i \in 1..Len(in_flight) :
        LET t == in_flight[i] IN
        CASE t.pc = "post" ->
                /\ in_flight' = [in_flight EXCEPT ![i].pc = "send"]
                /\ UNCHANGED <<session_cache, file_cache, ev, replies, requests,
                               response, joins, downloads, file_info, old_session,
                               prior, decrypts, raised, run>>
          [] t.pc = "download" ->
                LET r == on_file(session_cache, file_cache, t.e, t.dl, t.plan) IN
                /\ session_cache' = r.session_cache
                /\ file_cache' = r.file_cache
                /\ in_flight' = [in_flight EXCEPT ![i].pc = "send", ![i].r = r]
                /\ UNCHANGED <<ev, replies, requests, response, joins, downloads,
                               file_info, old_session, prior, decrypts, raised, run>>
          [] t.pc = "join" ->
                /\ Effects(t.e, on_invite(session_cache, file_cache, t.e, t.join))
                /\ in_flight' = Returned(i)
          [] t.pc = "send" ->
                /\ Effects(t.e, [t.r EXCEPT !.session_cache = session_cache,
                                            !.file_cache = file_cache])
                /\ in_flight' = Returned(i)

NextSteps ==
    \/ Start(Steps)
    \/ CallOnInvite(Steps)
    \/ CallOnMessage(Steps)
    \/ CallOnFile(Steps)
    \/ Resume

SpecSteps == Init /\ [][NextSteps]_vars

(***************************************************************************)
(* The callbacks entered at any moment: the callback of an event is called *)
(* while callbacks called before it are suspended at their awaits, as when *)
(* each callback is run as a task of its own.                              *)
(***************************************************************************)
\* one user in one room who uploads files and asks questions
Crowd ==
    [rooms |-> {Room1},
     senders |-> {Alice},
     inviters |-> {Alice},
     state_keys |-> {user_id},
     ts |-> {start_time},
     bodies |-> {PlainHi},
     ds |-> {Http(200, "object", TRUE, TRUE, Answer42), Timeout},
     plans |-> {OkPlan},
     names |-> {NameDoc},
     metas |-> {PdfInfo},
     dls |-> {Body("bytes-1", 5), Body("bytes-2", 8), NoBody},
     joins |-> {"joined"},
     inners |-> {"fails"},
     decrypts |-> {"file"},
     logins |-> {SmoothLogin},
     olms |-> {"olm_present"},
     tokens |-> {TRUE},
     syncs |-> {"ok"},
     fallbacks |-> {200}]

DispatchAnytime ==
    /\ run.pc = "syncing"
    /\ Len(in_flight) < MaxInFlight

\* the contents of the uploads in the attachment cache
InCache == {file_cache[key].data.base64_of : key \in DOMAIN file_cache}

\* the content of the upload the suspended on_message t has taken into its
\* request
Taken(t) ==
    IF t.e.kind = "text" /\ t.r.requests # <<>> /\ t.r.requests[1].uploads # <<>>
    THEN {t.r.requests[1].uploads[1].data.base64.base64_of}
    ELSE {}

\* the content the suspended on_file t is downloading
Downloading(t) ==
    IF t.e.kind = "file" /\ t.pc = "download" /\ t.dl.kind = "body"
    THEN {t.dl.content}
    ELSE {}

\* every upload is a file of its own: the download of a new file event
\* returns a content that no cached, downloading or taken upload has
Unused(dl) ==
    \/ dl.kind # "body"
    \/ /\ dl.content \notin InCache
       /\ \A i \in 1..Len(in_flight) :
             dl.content \notin Taken(in_flight[i]) \cup Downloading(in_flight[i])

EnterOnMessage(U) == DispatchAnytime /\ BeginOnMessage(U)

EnterOnFile(U) ==
    /\ DispatchAnytime
    /\ BeginOnFile([U EXCEPT !.dls = {dl \in @ : Unused(dl)}])

NextInterleaved ==
    \/ Start(Crowd)
    \/ EnterOnMessage(Crowd)
    \/ EnterOnFile(Crowd)
    \/ Resume

SpecInterleaved == Init /\ [][NextInterleaved]_vars

(***************************************************************************)
(* Properties.                                                             *)
(***************************************************************************)
\* an origin timestamp that is absent (0) or not before the start time
FreshTs(ts) == ts = 0 \/ ts >= start_time

\* a text or file event that is not the bot's own and not stale
Handled(e) ==
    e.kind \in {"text", "file"} /\ e.sender # user_id /\ FreshTs(e.ts)

IsCommand(e) == e.body # <<>> /\ e.body[1] = "!"

\* the last callback handled a non-command text message
PlainHandled == ev.kind = "text" /\ Handled(ev) /\ ~IsCommand(ev)

\* the last callback handled the command cmd
CommandHandled(cmd) ==
    ev.kind = "text" /\ Handled(ev) /\ IsCommand(ev) /\ Strip(ev.body) = cmd

\* the session id the last callback reported (!session) or put in its
\* request; NoSession when it did neither
LookedUp ==
    IF requests # <<>> THEN requests[1].session_id
    ELSE IF replies # <<>> /\ replies[1].text.tpl = "session_id"
    THEN replies[1].text.sid
    ELSE NoSession

AllRooms == {Room1, Room2}
AllKeys == AllRooms \X {Alice, Bob}

\* C1: as long as no !reset is handled in a room, the session id stored for
\* the room stays what it is, and every session lookup in the room (by
\* !session or by a non-command text message) yields the stored id; the first
\* lookup in a room without a session stores the id it yields.
C1_SessionStable ==
    [][\A R \in AllRooms :
        /\ (R \in DOMAIN session_cache /\ ~(ev'.room = R /\ CommandHandled(CmdReset)'))
           => /\ R \in DOMAIN session_cache'
              /\ session_cache'[R] = session_cache[R]
              /\ (ev'.room = R /\ LookedUp' # NoSession)
                 => LookedUp' = session_cache[R]
        /\ (R \notin DOMAIN session_cache /\ ev'.room = R /\ LookedUp' # NoSession)
           => /\ R \in DOMAIN session_cache'
              /\ session_cache'[R] = LookedUp'
      ]_vars

\* C1 witness: both rooms have a session and the last callback answered
\* !session in Room2 with the id stored for it
C1_Witness ==
    /\ CommandHandled(CmdSession)
    /\ ev.room = Room2
    /\ DOMAIN session_cache = AllRooms
    /\ LookedUp = session_cache[Room2]

\* C2: when the callback before the last one handled !reset in a room whose
\* session id was s (old_session) and the last callback looks the session of
\* that room up (!session, or a non-command text message), the id it reports
\* or sends is not s.
C2_ResetGivesNewId ==
    [][(/\ CommandHandled(CmdReset)
        /\ old_session # NoSession
        /\ ev'.room = ev.room
        /\ LookedUp' # NoSession)
       => LookedUp' # old_session]_vars

\* C3: after a handled !reset in room R the attachment cache has no entry
\* whose room is R.
C3_ResetPurgesRoom ==
    CommandHandled(CmdReset) => \A key \in DOMAIN file_cache : key[1] # ev.room

\* the request carries exactly the attachment att
Carries(request, att) ==
    /\ Len(request.uploads) = 1
    /\ request.uploads[1].data = [mime |-> att.mime, base64 |-> att.data]
    /\ request.uploads[1].name = att.name
    /\ request.uploads[1].mime = att.mime
    /\ request.uploads[1].type = "file:full"

\* the last callback handled a non-command text message of key = <<room, sender>>
PlainFrom(key) == PlainHandled /\ <<ev.room, ev.sender>> = key

\* the last callback handled a file event of key = <<room, sender>>, as it
\* came or as on_encrypted_file decrypted it
FileFrom(key) ==
    /\ \/ ev.kind = "file"
       \/ ev.kind = "encrypted_file" /\ ev.inner = "file"
    /\ ev.sender # user_id
    /\ FreshTs(ev.ts)
    /\ <<ev.room, ev.sender>> = key

\* C4: a cached upload of (room, sender) stays in the cache as it is until a
\* non-command text message of that sender in that room is handled or a new
\* upload of that sender in that room replaces it; that text message makes
\* one request, which carries exactly the cached attachment, and removes the
\* entry; a text message of a (room, sender) without an entry carries none,
\* and an entry appears only by a file event of that sender in that room.
C4_PutThenTakeOnce ==
    [][\A key \in AllKeys :
        /\ PlainFrom(key)'
           => /\ key \notin DOMAIN file_cache'
              /\ Len(requests') = 1
              /\ IF key \in DOMAIN file_cache
                 THEN Carries(requests'[1], file_cache[key])
                 ELSE requests'[1].uploads = <<>>
        /\ (~PlainFrom(key)' /\ key \in DOMAIN file_cache)
           => /\ key \in DOMAIN file_cache'
              /\ file_cache'[key] # file_cache[key] => FileFrom(key)'
        /\ (key \notin DOMAIN file_cache /\ key \in DOMAIN file_cache')
           => /\ FileFrom(key)'
              /\ Len(downloads') = 1
              /\ file_cache'[key].data
                    = b64encode(downloads'[1].content, downloads'[1].len)
      ]_vars

\* C4 witness: a non-command text message was sent on with an attachment, the
\* sender's entry is gone from the cache, and the other user's is still there
C4_Witness ==
    /\ PlainFrom(<<Room1, Alice>>)
    /\ Len(requests) = 1
    /\ Len(requests[1].uploads) = 1
    /\ <<Room1, Alice>> \notin DOMAIN file_cache
    /\ <<Room1, Bob>> \in DOMAIN file_cache

\* an event with a non-zero origin timestamp before the start time
Stale(e) ==
    /\ e.kind \in {"invite", "text", "file", "encrypted"}
    /\ e.ts # 0
    /\ e.ts < start_time

\* C5: a callback called with a stale event of any kind sends no reply,
\* makes no request, joins no room and leaves both caches as they are.
C5_StaleIgnored ==
    [][Stale(ev')
       => /\ replies' = <<>>
          /\ requests' = <<>>
          /\ joins' = <<>>
          /\ downloads' = <<>>
          /\ session_cache' = session_cache
          /\ file_cache' = file_cache]_vars

\* C6: a handled file event whose resolved MIME type is not in the supported
\* table leaves the attachment cache as it is, and one reply, the
\* unsupported-format text, is sent to the room.
C6_UnsupportedRejected ==
    [][(ev'.kind = "file" /\ Handled(ev') /\ file_info'.mime \notin SupportedTypes)
       => /\ file_cache' = file_cache
          /\ downloads' = <<>>
          /\ Len(replies') = 1
          /\ replies'[1].room = ev'.room
          /\ replies'[1].text = TextStr("unsupported_format", file_info'.mime)
      ]_vars

\* C6 witness: a file of an unsupported type was rejected while an earlier
\* upload is in the cache
C6_Witness ==
    /\ ev.kind = "file"
    /\ Handled(ev)
    /\ file_info.resolved
    /\ file_info.mime \notin SupportedTypes
    /\ <<Room1, Alice>> \in DOMAIN file_cache
    /\ Len(replies) = 1

\* the reply of the last callback is the single text t
RepliedWith(t) == Len(replies) = 1 /\ replies[1].text = t

\* the clauses of C7 for status 413, for the other statuses but 200, and for
\* a client-side timeout
C7_ErrorClauses ==
    /\ (response.kind = "http" /\ response.status = 413)
       => RepliedWith(Text("too_large"))
    /\ (response.kind = "http" /\ response.status \notin {200, 413})
       => RepliedWith(TextNum("flowise_error", response.status))
    /\ response.kind = "timeout" => RepliedWith(Text("timeout"))

\* the body of the response is a JSON object with a string in "text"
HasTextField ==
    /\ response.kind = "http"
    /\ response.status = 200
    /\ response.json = "object"
    /\ response.has_text
    /\ response.text_is_str

C8_ExactlyOneReply ==
    PlainHandled => Len(replies) = 1 /\ replies[1].room = ev.room

\* C8 witness: the body of a 200 response was not JSON, and the one reply
\* sent for it failed on every path
C8_Witness ==
    /\ PlainHandled
    /\ response.kind = "http"
    /\ response.status = 200
    /\ response.json = "invalid"
    /\ Len(replies) = 1
    /\ ~replies[1].send.delivered
    /\ replies[1].send.fallback # <<>>

\* the last callback was a call of send_text_message alone
SendDone == ev.kind = "send" /\ Len(replies) = 1

\* all max_retries primary attempts were made and none succeeded
AllPrimaryFailed(send) ==
    /\ Len(send.primary) = 3
    /\ \A i \in 1..3 : send.primary[i] # "ok"

\* C9: a send whose 3 primary attempts fail and whose fallback HTTP request
\* fails too (a status other than 200, or an exception: 0) returns False, and
\* no exception leaves it.
C9_AllFailedReportsFalse ==
    (/\ SendDone
     /\ AllPrimaryFailed(replies[1].send)
     /\ replies[1].send.fallback # <<>>
     /\ replies[1].send.fallback[1] # 200)
    => /\ replies[1].send.result = "False"
       /\ ~replies[1].send.raised

\* C10: a send whose 3 primary attempts each fail with a device-trust or key
\* error and whose fallback HTTP request succeeds returns True.
C10_FallbackReportsSuccess ==
    (/\ SendDone
     /\ Len(replies[1].send.primary) = 3
     /\ \A i \in 1..3 : replies[1].send.primary[i] \in {"unverified", "keyerror"})
    => /\ Len(replies[1].send.fallback) = 1
       /\ replies[1].send.fallback[1] = 200
          => /\ replies[1].send.result = "True"
             /\ replies[1].send.delivered
             /\ ~replies[1].send.raised

\* C10 witness: three primary attempts met device-trust and key errors, the
\* fallback request got 200, and the send returned True
C10_Witness ==
    /\ SendDone
    /\ replies[1].send.primary = <<"unverified", "keyerror", "unverified">>
    /\ replies[1].send.verified = 2
    /\ replies[1].send.fallback = <<200>>
    /\ replies[1].send.result = "True"

\* the exceptions that have left client.sync_forever
SyncErrorsMet == {run.errors[i] : i \in DOMAIN run.errors}

\* a callback has been called
Called == ev.kind \in {"invite", "text", "file", "encrypted", "encrypted_file"}

\* C11: whatever fails while an event is handled (the join, the download,
\* the decryption, the Flowise request, the send of the reply, an unknown
\* command), no exception leaves the event's callback: the callback returns,
\* client.sync_forever is not left because of it, and run() stays in its
\* sync loop, with the client open.
C11_HandlersReturn ==
    Called
    => /\ ~raised
       /\ "callback" \notin SyncErrorsMet
       /\ run.pc = "syncing"
       /\ ~run.closed

\* C11 witness: the Flowise request failed with a connection error, and the
\* send of the error reply failed at the first primary attempt and over HTTP
C11_Witness ==
    /\ PlainHandled
    /\ response.kind = "error"
    /\ Len(replies) = 1
    /\ replies[1].send.primary = <<"error">>
    /\ ~replies[1].send.delivered
    /\ ~raised
    /\ run.pc = "syncing"

\* C12: a room that has a session id in the session store has one after
\* every step, and a handled !reset in the room puts another id in the place
\* of the one stored.
C12_AlwaysOneSession ==
    [][\A R \in AllRooms :
        R \in DOMAIN session_cache
        => /\ R \in DOMAIN session_cache'
           /\ (ev'.room = R /\ CommandHandled(CmdReset)')
              => session_cache'[R] # session_cache[R]
      ]_vars

\* the last callback sent the notice that encrypted messages are not
\* supported
NoticeSent ==
    \E i \in DOMAIN replies : replies[i].text.tpl = "encryption_unsupported"

\* C13: for an encrypted event whose decryption yields a text or file event
\* the notice is not sent, and an inner non-command text message that is
\* fresh is asked of Flowise as the unencrypted one would be (one request,
\* with the text as the question); the notice is sent only for an event whose
\* decryption fails.
C13_DecryptedRedispatched ==
    ev.kind = "encrypted"
    => /\ NoticeSent => ev.inner = "fails"
       /\ (ev.inner = "text" /\ FreshTs(ev.ts))
          => /\ Len(requests) = 1
             /\ requests[1].question = ev.body

\* C14: a handled !rag of a sender who has no entry in the attachment cache
\* for the room is answered with one reply, the guidance to send a file
\* first, and no request is made.
C14_RagNeedsFile ==
    [][(/\ CommandHandled(CmdRag)'
        /\ <<ev'.room, ev'.sender>> \notin DOMAIN file_cache)
       => /\ Len(replies') = 1
          /\ replies'[1].text = Text("rag_no_file")
          /\ requests' = <<>>
          /\ file_cache' = file_cache]_vars

\* the last callback stored the file of its event in the attachment cache
Stored ==
    /\ file_info.resolved
    /\ Len(downloads) = 1
    /\ Len(replies) >= 1
    /\ replies[1].text.tpl = "file_received"

\* the cache entry on_file makes of the last event and its download
Uploaded ==
    [data |-> b64encode(downloads[1].content, downloads[1].len),
     mime |-> file_info.mime, name |-> file_info.name, size |-> file_info.size]

\* C15: a successful upload of (room, sender) makes the entry of that key
\* the uploaded file, whether or not the key had an entry (the one replaced
\* is gone), and adds no second entry; until the sender's next non-command
\* text message in the room only a new upload of that key changes the entry;
\* that text message makes one request, which carries exactly the entry, that
\* is the file uploaded last.
C15_LastUploadWins ==
    [][\A key \in AllKeys :
        /\ (FileFrom(key)' /\ Stored')
           => /\ DOMAIN file_cache' = DOMAIN file_cache \cup {key}
              /\ file_cache'[key] = Uploaded'
              /\ prior' = IF key \in DOMAIN file_cache
                          THEN <<file_cache[key]>> ELSE <<>>
        /\ (key \in DOMAIN file_cache /\ ~PlainFrom(key)' /\ ~(FileFrom(key)' /\ Stored'))
           => /\ key \in DOMAIN file_cache'
              /\ file_cache'[key] = file_cache[key]
        /\ (key \in DOMAIN file_cache /\ PlainFrom(key)')
           => /\ Len(requests') = 1
              /\ Carries(requests'[1], file_cache[key])
      ]_vars

\* C15 witness: the second upload of a user in a room has replaced the first,
\* a different file, and is the only entry of the key
C15_Witness ==
    /\ FileFrom(<<Room1, Alice>>)
    /\ Stored
    /\ prior # <<>>
    /\ prior[1].data = b64encode("bytes-1", 5)
    /\ file_cache[<<Room1, Alice>>].data = b64encode("bytes-2", 8)
    /\ file_cache[<<Room1, Alice>>] = Uploaded

\* C16: a handled text message leaves every cache entry of another (room,
\* sender) in the cache as it is, and the request it makes, if any, carries
\* the entry of its own (room, sender) or, when there is none, no attachment.
C16_KeysDoNotCollide ==
    [][(ev'.kind = "text" /\ Handled(ev'))
       => /\ \A key \in DOMAIN file_cache :
                key # <<ev'.room, ev'.sender>>
                => /\ key \in DOMAIN file_cache'
                   /\ file_cache'[key] = file_cache[key]
          /\ requests' # <<>>
             => IF <<ev'.room, ev'.sender>> \in DOMAIN file_cache
                THEN Carries(requests'[1], file_cache[<<ev'.room, ev'.sender>>])
                ELSE requests'[1].uploads = <<>>
      ]_vars

\* C16 witness: a text message of one user went to Flowise without an
\* attachment while the same room holds an upload of the other user and
\* the other room an upload of the user
C16_Witness ==
    /\ PlainFrom(<<Room1, Bob>>)
    /\ Len(requests) = 1
    /\ requests[1].uploads = <<>>
    /\ <<Room1, Alice>> \in DOMAIN file_cache
    /\ <<Room2, Bob>> \in DOMAIN file_cache
    /\ <<Room1, Bob>> \notin DOMAIN file_cache

\* C17: a text or file event whose sender is the bot itself causes no reply,
\* no request, no download and no join, and leaves the session store and the
\* attachment cache as they are.
C17_OwnEventsIgnored ==
    [][(ev'.kind \in {"text", "file"} /\ ev'.sender = user_id)
       => /\ replies' = <<>>
          /\ requests' = <<>>
          /\ downloads' = <<>>
          /\ joins' = <<>>
          /\ session_cache' = session_cache
          /\ file_cache' = file_cache]_vars

\* C17 witness: a fresh text message of the bot itself was delivered in a
\* room that has a session and a pending attachment, and nothing was done
C17_Witness ==
    /\ ev.kind = "text"
    /\ ev.sender = user_id
    /\ ev.ts > start_time
    /\ ev.room \in DOMAIN session_cache
    /\ <<ev.room, Alice>> \in DOMAIN file_cache
    /\ replies = <<>>
    /\ requests = <<>>

\* C18 as stated: an invite whose state key is the bot makes one join
\* request, for the room of the invite, and the room has a session after it;
\* an invite of another user makes no join request and leaves the session
\* store as it is.
C18_Original ==
    [][ev'.kind = "invite"
       => IF ev'.state_key = user_id
          THEN /\ Len(joins') = 1
               /\ joins'[1].room = ev'.room
               /\ ev'.room \in DOMAIN session_cache'
          ELSE /\ joins' = <<>>
               /\ session_cache' = session_cache]_vars

\* C18 as amended: an invite whose state key is the bot makes one join
\* request, for the room of the invite; when the join succeeds, the room has
\* a session after it, the one it had or, when it had none, a new one, and
\* the sessions of the other rooms are as before.  An invite of another user
\* makes no join request and leaves the session store as it is.
C18_InviteJoins ==
    [][ev'.kind = "invite"
       => IF ev'.state_key = user_id
          THEN /\ Len(joins') = 1
               /\ joins'[1].room = ev'.room
               /\ joins'[1].outcome = "joined"
                  => /\ DOMAIN session_cache' = DOMAIN session_cache \cup {ev'.room}
                     /\ \A R \in DOMAIN session_cache :
                            session_cache'[R] = session_cache[R]
          ELSE /\ joins' = <<>>
               /\ session_cache' = session_cache]_vars

\* C18 witness: the bot was invited to a room, has joined it, and that room,
\* and no other, has a session
C18_Witness ==
    /\ ev.kind = "invite"
    /\ ev.state_key = user_id
    /\ Len(joins) = 1
    /\ joins[1] = [room |-> Room2, outcome |-> "joined"]
    /\ DOMAIN session_cache = {Room2}
    /\ session_cache[Room2] = generate_session_id(Room2)

\* all the login attempts of login_with_retry were made and none succeeded
AllLoginsFailed ==
    /\ Len(run.logins) = 3
    /\ \A i \in 1..3 : run.logins[i] # "ok"

\* no callback was registered, no sync was made, and run() has ended with the
\* client closed
StartupAborted ==
    /\ ~run.callbacks
    /\ run.syncs = 0
    /\ run.pc = "stopped"
    /\ run.closed

\* C19 as stated: the startup makes at most 3 login requests, and when all 3
\* attempts fail (a LoginError or an exception each) no callback is
\* registered, no sync is made, and run() ends with the client closed.
C19_Original ==
    /\ Len(run.logins) + Len(run.olm_logins) <= 3
    /\ AllLoginsFailed => StartupAborted

\* C19 as amended: login_with_retry makes at most 3 login requests, and only
\* after one of them succeeded does init_olm make at most one more; when all
\* 3 attempts fail no further login request is made, no callback is
\* registered, no sync is made, and run() ends with the client closed.
C19_LoginBounded ==
    /\ Len(run.logins) <= 3
    /\ Len(run.olm_logins) <= 1
    /\ run.olm_logins # <<>>
       => /\ run.logins # <<>>
          /\ run.logins[Len(run.logins)] = "ok"
    /\ AllLoginsFailed => (StartupAborted /\ run.olm_logins = <<>>)

\* C19 witness: three login attempts failed, by an error response, an
\* exception and an error response, with sleeps of 1 and 2 seconds between
\* them, and run() has ended with the client closed
C19_Witness ==
    /\ run.logins = <<"login_error", "raises", "login_error">>
    /\ run.slept = <<1, 2>>
    /\ run.fatal = "login"
    /\ StartupAborted

\* C20: when an unverified-device error leaves client.sync_forever,
\* verify_all_devices is called once and client.sync_forever is called again:
\* run() stays in its loop with the client open; run() never ends on such an
\* error, however many of them it has met.
C20_UnverifiedRestartsSync ==
    [][/\ (/\ Len(run'.errors) = Len(run.errors) + 1
           /\ run'.errors[Len(run'.errors)] = "unverified")
          => /\ run'.verified = run.verified + 1
             /\ run'.syncs = run.syncs + 1
             /\ run'.pc = "syncing"
             /\ ~run'.closed
       /\ (run'.pc = "stopped" /\ run'.errors # <<>>)
          => run'.errors[Len(run'.errors)] # "unverified"
      ]_vars

\* C20 witness: the sync loop was interrupted by an unverified-device error
\* MaxInterrupts times, the devices were verified as often, and a text
\* message was handled after that
C20_Witness ==
    /\ Len(run.errors) = MaxInterrupts
    /\ \A i \in DOMAIN run.errors : run.errors[i] = "unverified"
    /\ run.verified = MaxInterrupts
    /\ run.syncs = 2 + MaxInterrupts
    /\ run.pc = "syncing"
    /\ PlainHandled
    /\ Len(replies) = 1

\* --------------------------------------------------------------------
\* Downloads that fail
\* --------------------------------------------------------------------

\* what the last download met makes download_and_encode_file return None on
\* one of its three failure paths
DownloadFailed ==
    /\ Len(downloads) = 1
    /\ \/ downloads[1].kind = "body" /\ downloads[1].len > 100 * 1024 * 1024
       \/ downloads[1].kind = "no_body"
       \/ downloads[1].kind = "raises"

\* C21: when the handler of a file event downloads the attachment and the
\* payload is larger than 100 MB, the response has no body, or the download
\* raises, the handler does not raise, the attachment cache after the
\* handler is the cache before it, and the one reply of the handler is the
\* could-not-load text with the resolved file name.
C21_FailedDownloadStoresNothing ==
    [][(ev'.kind = "file" /\ Handled(ev') /\ DownloadFailed')
        => /\ file_cache' = file_cache
           /\ session_cache' = session_cache
           /\ ~raised'
           /\ Len(replies') = 1
           /\ replies'[1].text = TextSeq("download_failed", file_info'.name)]_vars

\* an upload over the size limit arrives while an earlier upload of the same
\* sender is cached: the earlier one stays
C21_Witness ==
    /\ ev.kind = "file" /\ Handled(ev)
    /\ DownloadFailed
    /\ downloads[1].len = MaxFileBytes + 1
    /\ CacheKey(ev) \in DOMAIN file_cache
    /\ RepliedWith(TextSeq("download_failed", file_info.name))

\* --------------------------------------------------------------------
\* The attempts of one send
\* --------------------------------------------------------------------

\* the last operation was one send; its record of attempts
LastSend == replies[1].send

\* C22: one send makes at most 3 primary attempts and at most 1 fallback
\* request and returns (True or False, no exception); a primary attempt that
\* succeeds is the last primary attempt, and the send then returns True
\* without a fallback request.
C22_AttemptsBounded ==
    SendDone =>
        /\ Len(LastSend.primary) <= 3
        /\ Len(LastSend.fallback) <= 1
        /\ LastSend.result \in {"True", "False"}
        /\ ~LastSend.raised
        /\ \A i \in 1..Len(LastSend.primary) :
              LastSend.primary[i] = "ok"
              => /\ i = Len(LastSend.primary)
                 /\ LastSend.fallback = <<>>
                 /\ LastSend.result = "True"

\* a send whose second primary attempt succeeds after a key error: two
\* attempts, no fallback
C22_Witness ==
    /\ SendDone
    /\ LastSend.primary = <<"keyerror", "ok">>
    /\ LastSend.fallback = <<>>
    /\ LastSend.result = "True"

\* C23: a primary attempt that fails with an error other than a device-trust
\* or key error is the last primary attempt of the send; a primary attempt
\* that fails with a device-trust or key error and is not the third is
\* followed by another primary attempt.
C23_RetryOnlyOnTrustOrKeyError ==
    SendDone =>
        \A i \in 1..Len(LastSend.primary) :
            /\ LastSend.primary[i] = "error" => i = Len(LastSend.primary)
            /\ (LastSend.primary[i] \in {"unverified", "keyerror"} /\ i < 3)
               => Len(LastSend.primary) >= i + 1

\* a send that retried after a device-trust error and stopped at an
\* unexpected error on the second attempt
C23_Witness ==
    /\ SendDone
    /\ LastSend.primary = <<"unverified", "error">>
    /\ LastSend.verified = 1

\* --------------------------------------------------------------------
\* The type of a file
\* --------------------------------------------------------------------

\* the name s ends with the extension x
EndsWith(s, x) ==
    Len(s) >= Len(x) /\ SubSeq(s, Len(s) - Len(x) + 1, Len(s)) = x

\* the last callback handled a file event that declares no MIME type, in its
\* file metadata or in its source, and whose name ends with the extension of
\* the supported type mime
UndeclaredWithExtensionOf(mime) ==
    /\ ev.kind = "file" /\ Handled(ev)
    /\ ev.meta.file_mimetype = ""
    /\ ~ev.meta.info_has_mimetype
    /\ EndsWith(ev.body, MIME_TO_EXTENSION(mime))

\* C24: a file event whose file metadata and source declare no MIME type and
\* whose name ends with the extension of a supported type (.pdf) is
\* classified as that type by the lookup of the extension, is not rejected
\* as unsupported, and is cached when its download succeeds.
C24_ExtensionClassifies ==
    UndeclaredWithExtensionOf("application/pdf")
    => /\ file_info.mime = "application/pdf"
       /\ Len(replies) >= 1
       /\ replies[1].text.tpl # "unsupported_format"
       /\ (ev.meta.has_url /\ Len(downloads) = 1 /\ downloads[1].kind = "body"
           /\ downloads[1].len \in 1..MaxFileBytes)
          => /\ CacheKey(ev) \in DOMAIN file_cache
             /\ file_cache[CacheKey(ev)].mime = "application/pdf"

\* --------------------------------------------------------------------
\* The length of an answer
\* --------------------------------------------------------------------

\* the answer of a 200 response whose body is a JSON object: its text
\* member, which is a string, or the default text when it has none
Answered ==
    /\ response.kind = "http"
    /\ response.status = 200
    /\ response.json = "object"
    /\ response.has_text => response.text_is_str

TheAnswer == IF response.has_text THEN response.text ELSE DefaultAnswer

\* C25: for a handled non-command text message answered with HTTP 200, the
\* one reply is the answer unchanged when the answer has at most 4000
\* characters, and otherwise its first 4000 characters followed by the
\* truncation notice, and nothing else.
C25_AnswerCut ==
    (PlainHandled /\ Answered)
    => /\ Len(replies) = 1
       /\ replies[1].text.tpl = "answer"
       /\ replies[1].text.seq =
            IF Len(TheAnswer) <= 4000
            THEN TheAnswer
            ELSE SubSeq(TheAnswer, 1, 4000) \o TruncationNotice

\* an answer of 4001 characters is replied to with its first 4000 characters
\* and the notice: the last character is lost
C25_Witness ==
    /\ PlainHandled /\ Answered
    /\ Len(response.text) = 4001
    /\ Len(replies) = 1
    /\ Len(replies[1].text.seq) = 4000 + Len(TruncationNotice)
    /\ replies[1].text.seq[4000] = "a"
    /\ SubSeq(replies[1].text.seq, 4001, Len(replies[1].text.seq)) = TruncationNotice

\* --------------------------------------------------------------------
\* Sessions of different rooms
\* --------------------------------------------------------------------

C27_FreshExactly ==
    [][(ev'.kind \in {"text", "file"} /\ ev'.sender # user_id)
        => /\ (replies' # <<>>) <=> (ev'.ts = 0 \/ ev'.ts >= start_time)
           /\ (replies' = <<>>) <=> (ev'.ts # 0 /\ ev'.ts < start_time)
           /\ (replies' = <<>>)
              => /\ session_cache' = session_cache
                 /\ file_cache' = file_cache
                 /\ requests' = <<>>]_vars

\* a file stamped exactly at the start time is stored
C27_Witness ==
    /\ ev.kind = "file"
    /\ ev.sender # user_id
    /\ ev.ts = start_time
    /\ Stored
    /\ CacheKey(ev) \in DOMAIN file_cache

\* --------------------------------------------------------------------
\* Commands and the caches
\* --------------------------------------------------------------------

\* C28: the handler of a text message that begins with '!' leaves the
\* attachment cache as it was (the sender's pending attachment included) and
\* makes no request; if the command is not !reset or !session (!help,
\* !start, !status, an unrecognized command) it leaves the session store as
\* it was too.
C28_CommandsKeepAttachment ==
    [][(ev'.kind = "text" /\ Handled(ev') /\ IsCommand(ev'))
        => /\ file_cache' = file_cache
           /\ requests' = <<>>
           /\ Strip(ev'.body) \notin {CmdReset, CmdSession}
              => session_cache' = session_cache]_vars

\* !help is answered while the sender's attachment is pending and the room
\* has a session
C28_Witness ==
    /\ CommandHandled(CmdHelp)
    /\ RepliedWith(Text("help"))
    /\ CacheKey(ev) \in DOMAIN file_cache
    /\ ev.room \in DOMAIN session_cache

\* --------------------------------------------------------------------
\* Joins that fail
\* --------------------------------------------------------------------

\* C29: when the join request of an invite of the bot fails, by raising or
\* by returning a join error, a room that had no session before the invite
\* has none after it.
C29_FailedJoinNoSession ==
    [][(/\ ev'.kind = "invite"
        /\ ev'.state_key = user_id
        /\ Len(joins') = 1
        /\ joins'[1].outcome \in {"join_error", "raises"}
        /\ ev'.room \notin DOMAIN session_cache)
        => ev'.room \notin DOMAIN session_cache']_vars

\* --------------------------------------------------------------------
\* Callbacks one after the other
\* --------------------------------------------------------------------

\* what the callback t does when it runs from its call to its return in the
\* stores as they were when it was called
AtOnce(t) ==
    CASE t.e.kind = "text" -> on_message(t.sc0, t.fc0, t.e, t.ds, t.plan)
      [] t.e.kind = "file" -> on_file(t.sc0, t.fc0, t.e, t.dl, t.plan)
      [] t.e.kind = "invite" -> on_invite(t.sc0, t.fc0, t.e, t.join)

ResetIn(R) == CommandHandled(CmdReset) /\ ev.room = R

\* C31: an entry of the attachment cache under (R, S) is removed or changed
\* by a callback only if the callback handled a non-command text message of
\* S in R (which removes it), !reset in R, or a file event of S in R whose
\* download succeeded (which replaces it by the new upload); every other
\* callback leaves it in the cache as it is.
C31_LeavesOnlyByUse ==
    [][\A key \in DOMAIN file_cache :
        (key \notin DOMAIN file_cache' \/ file_cache'[key] # file_cache[key])
        => \/ PlainFrom(key)' /\ key \notin DOMAIN file_cache'
           \/ ResetIn(key[1])'
           \/ /\ FileFrom(key)'
              /\ Stored'
              /\ key \in DOMAIN file_cache'
              /\ file_cache'[key] = Uploaded']_vars

\* Alice's upload in Room1 is still cached after Bob's text message in the
\* same room took Bob's own upload
C31_Witness ==
    /\ PlainFrom(<<Room1, Bob>>)
    /\ Len(requests) = 1
    /\ requests[1].uploads # <<>>
    /\ <<Room1, Alice>> \in DOMAIN file_cache
    /\ <<Room1, Bob>> \notin DOMAIN file_cache

\* --------------------------------------------------------------------
\* The acknowledgement of an upload
\* --------------------------------------------------------------------

\* the last callback sent the acknowledgement of receipt
Acknowledged == \E i \in 1..Len(replies) : replies[i].text.tpl = "file_received"

\* the last callback put the file of its event in the attachment cache
StoredByEvent ==
    /\ Len(downloads) = 1
    /\ CacheKey(ev) \in DOMAIN file_cache
    /\ file_cache[CacheKey(ev)] = Uploaded

\* C32: the handler of a file event sends the acknowledgement of receipt if
\* and only if it stored the file in the attachment cache; when it stored
\* nothing it sends exactly one reply, a rejection or an error text.
C32_AcknowledgedIffStored ==
    (ev.kind = "file" /\ Handled(ev))
    => /\ Acknowledged <=> StoredByEvent
       /\ ~StoredByEvent
          => /\ Len(replies) = 1
             /\ replies[1].text.tpl \in
                  {"unsupported_format", "download_failed", "no_url", "file_error"}

\* --------------------------------------------------------------------
\* A request that fails after the attachment was taken
\* --------------------------------------------------------------------

\* the Flowise request of the last callback timed out, met a connection
\* error, or was answered with a status other than 200 or with a 200 whose
\* body is no answer
RequestFailed ==
    /\ Len(requests) = 1
    /\ \/ response.kind \in {"timeout", "error"}
       \/ response.kind = "http" /\ response.status # 200
       \/ response.kind = "http" /\ response.status = 200 /\ ~Answered

\* C33: when the handler of a non-command text message took the sender's
\* attachment into its request and the request failed or timed out, the
\* attachment is not in the cache after the handler, and a non-command text
\* message of the same sender in the same room handled next makes its
\* request without an attachment.
C33_NotPutBack ==
    [][(PlainHandled /\ RequestFailed /\ requests[1].uploads # <<>>)
        => /\ CacheKey(ev) \notin DOMAIN file_cache
           /\ (PlainHandled' /\ CacheKey(ev') = CacheKey(ev))
              => /\ Len(requests') = 1
                 /\ requests'[1].uploads = <<>>
                 /\ requests'[1].timeout = 60]_vars

\* a request that carried the sender's attachment timed out: the timeout
\* notice was sent and the attachment is gone
C33_Witness ==
    /\ PlainHandled
    /\ RequestFailed
    /\ response.kind = "timeout"
    /\ Len(requests[1].uploads) = 1
    /\ requests[1].timeout = 120
    /\ CacheKey(ev) \notin DOMAIN file_cache
    /\ replies[1].text = Text("timeout")

\* --------------------------------------------------------------------
\* The fallback after a break
\* --------------------------------------------------------------------

\* C34: a send whose primary attempts end with an error that is neither a
\* device-trust nor a key error, after one or two attempts, makes exactly
\* one fallback request, as a send whose three attempts all failed does.
C34_FallbackAfterBreak ==
    (/\ SendDone
     /\ LastSend.primary # <<>>
     /\ LastSend.primary[Len(LastSend.primary)] = "error")
    => /\ Len(LastSend.fallback) = 1
       /\ LastSend.delivered <=> LastSend.fallback[1] = 200
       /\ ~LastSend.raised

\* the first primary attempt met an unexpected error and the message went
\* out over the fallback request
C34_Witness ==
    /\ SendDone
    /\ LastSend.primary = <<"error">>
    /\ LastSend.fallback = <<200>>
    /\ LastSend.delivered

\* --------------------------------------------------------------------
\* The other rooms
\* --------------------------------------------------------------------

\* C35: a callback for an event in room R leaves, for every other room, the
\* session of the room (none, or the same id) and every attachment keyed by
\* the room as they were, and adds no attachment keyed by it.
C35_OtherRoomsUntouched ==
    [][\A R \in AllRooms \ {ev'.room} :
        /\ (R \in DOMAIN session_cache) <=> (R \in DOMAIN session_cache')
        /\ R \in DOMAIN session_cache => session_cache'[R] = session_cache[R]
        /\ \A key \in AllKeys :
              key[1] = R
              => /\ (key \in DOMAIN file_cache) <=> (key \in DOMAIN file_cache')
                 /\ key \in DOMAIN file_cache => file_cache'[key] = file_cache[key]
      ]_vars

\* !reset in Room1 removed the session of Room1 while Room2 keeps its
\* session and an attachment
C35_Witness ==
    /\ CommandHandled(CmdReset)
    /\ ev.room = Room1
    /\ RepliedWith(Text("reset_done"))
    /\ Room1 \notin DOMAIN session_cache
    /\ Room2 \in DOMAIN session_cache
    /\ \E key \in DOMAIN file_cache : key[1] = Room2

\* --------------------------------------------------------------------
\* The id of a room
\* --------------------------------------------------------------------

\* C36: a session that a callback creates for room R has the id made of the
\* room id alone, "matrix_" and the first 16 hex digits of its SHA-256, the
\* first time and every time after; in particular the session created for R
\* by the callback that follows a !reset of R has the id the !reset removed.
C36_IdOfRoomAlone ==
    [][/\ \A R \in AllRooms :
            (R \notin DOMAIN session_cache /\ R \in DOMAIN session_cache')
            => session_cache'[R] = [prefix |-> "matrix_", hash |-> Sha256Hex16(R)]
       /\ (/\ CommandHandled(CmdReset)
           /\ old_session # NoSession
           /\ ev.room \in DOMAIN session_cache')
          => session_cache'[ev.room] = old_session]_vars

\* !session in Room1 reports and stores the id of Room1, matrix_ and the
\* SHA-256 prefix of "!r1:hs", whatever was handled in the room before
C36_Witness ==
    /\ CommandHandled(CmdSession)
    /\ ev.room = Room1
    /\ old_session = NoSession
    /\ LookedUp = [prefix |-> "matrix_", hash |-> "f2fa09e5cd1fff22"]
    /\ session_cache[Room1] = LookedUp
    /\ Room2 \notin DOMAIN session_cache

\* --------------------------------------------------------------------
\* What the attachment cache holds
\* --------------------------------------------------------------------

\* the length of the base64 text of a payload of 100 MB
MaxEncoded == 4 * ((100 * 1024 * 1024 + 2) \div 3)

\* C37: after every callback each entry of the attachment cache has a
\* supported MIME type and a non-empty payload no longer than the base64
\* text of 100 MB; an entry that appears or changes is the encoded body of
\* the download the callback completed; and a file event whose download
\* returns zero bytes stores nothing and is answered with the
\* could-not-load text.
C37_CacheEntriesSound ==
    [][/\ \A key \in DOMAIN file_cache' :
            /\ file_cache'[key].mime \in SupportedTypes
            /\ file_cache'[key].data.len > 0
            /\ file_cache'[key].data.len <= MaxEncoded
            /\ (key \notin DOMAIN file_cache \/ file_cache[key] # file_cache'[key])
               => /\ Len(downloads') = 1
                  /\ downloads'[1].kind = "body"
                  /\ downloads'[1].len \in 1..(100 * 1024 * 1024)
                  /\ file_cache'[key].data =
                        b64encode(downloads'[1].content, downloads'[1].len)
       /\ (/\ ev'.kind = "file" /\ Handled(ev')
           /\ Len(downloads') = 1
           /\ downloads'[1].kind = "body"
           /\ downloads'[1].len = 0)
          => /\ file_cache' = file_cache
             /\ Len(replies') = 1
             /\ replies'[1].text.tpl = "download_failed"]_vars

\* a file of exactly 100 MB is cached
C37_Witness ==
    /\ ev.kind = "file" /\ Handled(ev)
    /\ Len(downloads) = 1
    /\ downloads[1].len = 100 * 1024 * 1024
    /\ CacheKey(ev) \in DOMAIN file_cache
    /\ file_cache[CacheKey(ev)].data.len = MaxEncoded
    /\ file_cache[CacheKey(ev)].mime \in SupportedTypes

\* --------------------------------------------------------------------
\* Which callbacks make a request
\* --------------------------------------------------------------------

\* C38: the last callback made exactly one Flowise request when it handled a
\* non-command text message that is not the bot's own and not stale, and
\* none in every other case: an invite, a file event, a command, an
\* encrypted event or file, a message of the bot itself, a stale message.
C38_RequestOnlyForPlainText ==
    /\ PlainHandled => Len(requests) = 1 /\ requests[1].question = ev.body
    /\ ~PlainHandled => requests = <<>>
    /\ requests # <<>>
       => /\ ev.kind = "text"
          /\ ev.sender # user_id
          /\ ev.ts = 0 \/ ev.ts >= start_time
          /\ ~StartsWith(ev.body, "!")

\* " !reset", which does not begin with '!', went to Flowise as a question
C38_Witness ==
    /\ PlainHandled
    /\ ev.body = PlainPadded
    /\ Len(requests) = 1
    /\ requests[1].question = PlainPadded

\* --------------------------------------------------------------------
\* One upload, one request
\* --------------------------------------------------------------------

\* C39: with callbacks entered while others are suspended at their download,
\* Flowise request or send, an upload is in at most one request: the
\* on_message that takes an attachment into its request finds it in the
\* cache and leaves the cache without it in the same step, the requests of
\* two suspended on_message calls never hold the same upload, an upload held
\* by a request is not in the cache, and the request a callback is seen to
\* have made when it returns is the one it built when it took the upload.
C39_OneUploadOneRequest ==
    [][/\ \A i, j \in 1..Len(in_flight') :
            i # j => Taken(in_flight'[i]) \cap Taken(in_flight'[j]) = {}
       /\ \A i \in 1..Len(in_flight') : Taken(in_flight'[i]) \cap InCache' = {}
       /\ Len(in_flight') > Len(in_flight)
          => LET t == in_flight'[Len(in_flight')] IN
             Taken(t) # {}
             => /\ CacheKey(t.e) \in DOMAIN file_cache
                /\ Carries(t.r.requests[1], file_cache[CacheKey(t.e)])
                /\ CacheKey(t.e) \notin DOMAIN file_cache'
       /\ \A i \in 1..Len(in_flight) :
            (in_flight' = Returned(i) /\ in_flight[i].e.kind = "text")
            => requests' = in_flight[i].r.requests]_vars

\* two text messages of Alice in Room1 are being handled at once: the first
\* took her upload and still awaits Flowise, the second was called after it
\* and has none
C39_Witness ==
    /\ Len(in_flight) = 2
    /\ in_flight[1].e.kind = "text" /\ in_flight[2].e.kind = "text"
    /\ CacheKey(in_flight[1].e) = CacheKey(in_flight[2].e)
    /\ in_flight[1].pc = "post"
    /\ Taken(in_flight[1]) # {}
    /\ Taken(in_flight[2]) = {}
    /\ in_flight[2].r.requests[1].uploads = <<>>

====
